---- MODULE Spec2Model ----
(***************************************************************************)
(* Evidence Synthesis Pipeline of genestack_demo: the analysis            *)
(* orchestrator (analysis_service.py), the LLM correlation analyzer with  *)
(* its tenacity retry loop and the process-wide sliding-window rate       *)
(* limiter (llm_service.py), over the SQLAlchemy record store (models).   *)
(*                                                                         *)
(* Time is counted in ticks of 1/TicksPerSecond second, so that the       *)
(* fractional values of time.time() are represented.                      *)
(***************************************************************************)
EXTENDS Integers, Sequences, FiniteSets, TLC

VARIABLES
  clock,        \* time.time(), in ticks
  nticks,       \* number of clock advances so far (bounds the model)
  ceiling,      \* requests_per_minute handed to _check_rate_limit
  tracker,      \* _rate_limit_tracker: key -> list of request times
  admitted,     \* history: key -> every time ever appended by line 64
  lastCheck,    \* history: the latest _check_rate_limit call and its outcome
  lastReject,   \* history: key -> the latest rejection not yet followed by an admission
  nchecks,      \* number of _check_rate_limit calls so far (bounds the model)
  request,      \* run -> the AnalysisRequest and UserSession of the run
  pc,           \* run -> position of the run_analysis task
  analysis,     \* run -> the Analysis object held by the orchestrator's db session
  result,       \* run -> the Result object under construction (or NoResult)
  pending,      \* run -> Result objects added to the db session, not yet committed
  store,        \* the committed rows: analyses and results
  llm,          \* run -> state of the analyze_correlation call (attempts, sleep, outcome)
  hist,         \* run -> history of the run (statuses assigned, calls made)
  call,         \* one analyze_correlation call taken alone, with what it did so far
  unit,         \* one provider adapter call taken alone: its responses and its outcome
  agg,          \* one _fetch_evidence call taken alone: its collector tasks
  fetcher,      \* one data_fetcher call taken alone: the service's answers and the outcome
  app,          \* the API process (main.py): stored rows, session store, tasks, sockets
  extractor,    \* one call of the literature extractor taken alone: its input and output
  auth          \* the session-authenticated endpoints of main.py: sessions, users, rows

vars == << clock, nticks, ceiling, tracker, admitted, lastCheck, lastReject, nchecks,
           request, pc, analysis, result, pending, store, llm, hist, call, unit, agg,
           fetcher, app, extractor, auth >>

rateVars == << tracker, admitted, lastCheck, lastReject, nchecks >>
runVars == << request, pc, analysis, result, pending, store, llm, hist >>
auxVars == << call, unit, agg, fetcher, app, extractor, auth >>

----------------------------------------------------------------------------
(* Bounds of the model *)

TicksPerSecond == 2
MaxTicks == 3
MaxChecks == 4
MaxRpm == 2
NumRuns == 2
MaxContentLen == 5
MaxDocs == 2
MaxPages == 3

(* Program constants *)

Window == 60
WaitBase == 61
RequestsPerMinute == 20
MaxSleep == 60
StopAfterAttempt == 3
WaitMin == 2
WaitMax == 30
WaitMultiplier == 1
DEFAULT_OPENTARGETS_SIZE == 50

None == "None"

Max(a, b) == IF a >= b THEN a ELSE b
Min(a, b) == IF a <= b THEN a ELSE b

\* Python's int(): truncation toward zero of the rational n / d, d > 0
IntTrunc(n, d) == IF n >= 0 THEN n \div d ELSE -((-n) \div d)

RECURSIVE SeqMin(_)
SeqMin(s) == IF Len(s) = 1 THEN s[1] ELSE Min(s[1], SeqMin(Tail(s)))

RECURSIVE SeqMax(_)
SeqMax(s) == IF Len(s) = 1 THEN s[1] ELSE Max(s[1], SeqMax(Tail(s)))

----------------------------------------------------------------------------
(* _check_rate_limit, llm_service.py lines 40-64 *)

\* line 45-46: a provider absent from the dict has the empty list
Requests(trk, key) == IF key \in DOMAIN trk THEN trk[key] ELSE << >>

InWindowNoPrune(reqs, now) == reqs

\* lines 43, 49-52: keep req_time > now - 60
InWindow(reqs, now) ==
  SelectSeq(reqs, LAMBDA t : t > now - Window * TicksPerSecond)

AtLimitOffByOne(n, rpm) == n > rpm

\* line 55
AtLimit(n, rpm) == n >= rpm

WaitTimeWindowOnly(now, oldest) ==
  IntTrunc(Window * TicksPerSecond - (now - oldest), TicksPerSecond)

\* line 57: int(61 - (now - oldest_request))
WaitTime(now, oldest) ==
  IntTrunc(WaitBase * TicksPerSecond - (now - oldest), TicksPerSecond)

\* line 64
Record(reqs, now) == Append(reqs, now)

\* The whole function: the new tracker and either a return or LLMRateLimitError
CheckRateLimit(trk, key, rpm, now) ==
  LET kept == InWindow(Requests(trk, key), now)
      pruned == [k \in DOMAIN trk \cup {key} |-> IF k = key THEN kept ELSE trk[k]]
  IN IF AtLimit(Len(kept), rpm)
     THEN [raised |-> TRUE,
           retry_after |-> WaitTime(now, SeqMin(kept)),
           tracker |-> pruned]
     ELSE [raised |-> FALSE,
           retry_after |-> 0,
           tracker |-> [pruned EXCEPT ![key] = Record(kept, now)]]

----------------------------------------------------------------------------
(* History kept beside the limiter: what each check saw and decided *)

EmptyMap == << >>

\* Before any check
NoCheck ==
  [key |-> None, tkey |-> << >>, now |-> 0, rpm |-> 0, raised |-> FALSE, retry_after |-> 0,
   before |-> << >>, admittedBefore |-> << >>, rejects |-> {}]

\* The record of one _check_rate_limit(key, rpm) call made at time clock for
\* provider p: what it found under key and what it decided
CheckRecord(p, key, rpm, res) ==
  [key |-> p, tkey |-> key, now |-> clock, rpm |-> rpm,
   raised |-> res.raised, retry_after |-> res.retry_after,
   before |-> Requests(tracker, key),
   admittedBefore |-> Requests(admitted, p),
   rejects |-> IF p \in DOMAIN lastReject THEN lastReject[p] ELSE {}]

\* The call's effect on the tracker, and the admissions of provider p
RateBook(p, key, rpm, res) ==
  /\ tracker' = res.tracker
  /\ admitted' = IF res.raised THEN admitted
                 ELSE [k \in DOMAIN admitted \cup {p} |->
                         IF k = p THEN Append(Requests(admitted, p), clock)
                         ELSE admitted[k]]

\* The history of the checks themselves, kept where the limiter is studied alone
RateLog(p, key, rpm, res) ==
  /\ lastCheck' = CheckRecord(p, key, rpm, res)
  /\ lastReject' = [k \in DOMAIN lastReject \cup {p} |->
                      IF k # p THEN lastReject[k]
                      ELSE IF res.raised
                           THEN (IF p \in DOMAIN lastReject THEN lastReject[p] ELSE {})
                                \cup {[at |-> clock, retry_after |-> res.retry_after]}
                           ELSE {}]
  /\ nchecks' = nchecks + 1

----------------------------------------------------------------------------
(* The clock: time.time() is non-decreasing; it advances by a tick, by just
   under the window, by the window, or by the window plus one second *)

ClockSteps == {1, Window * TicksPerSecond - 1, Window * TicksPerSecond,
               WaitBase * TicksPerSecond}

Tick ==
  /\ nticks < MaxTicks
  /\ \E d \in ClockSteps : clock' = clock + d
  /\ nticks' = nticks + 1
  /\ UNCHANGED << ceiling, auxVars, rateVars, runVars >>

----------------------------------------------------------------------------
(* Values shared by the orchestrator and the analyzer *)

\* Optional values: Null is Python's None, Some(v) a present value
Null == << >>
Some(v) == << v >>

Providers == {"openai", "anthropic"}

\* An exception: its class, str(e) and, for LLMRateLimitError, retry_after
Exc(cls, msg, ra) == [cls |-> cls, msg |-> msg, retry_after |-> ra]
NoExc == Exc(None, "", Null)

\* The dict analyze_correlation returns: .get("verdict"), .get("confidence")
\* (in tenths) and the "_raw" key of the parse fallback
Output(verdict, confidence, raw) ==
  [verdict |-> verdict, confidence |-> confidence, raw |-> raw]
NoOutput == Output(Null, Null, Null)

----------------------------------------------------------------------------
(* The provider adapters, llm_service.py lines 128-354 *)

\* Response texts, and the keywords txt.lower() contains
Bodies ==
  {"", "invalid key", "rate limit", "quota", "Billing hard limit", "unavailable",
   "response_format", "Unknown parameter: Response_Format", "forbidden"}

Lowered(txt) ==
  IF txt = "quota" THEN {"quota"}
  ELSE IF txt = "Billing hard limit" THEN {"billing"}
  ELSE IF txt \in {"response_format", "Unknown parameter: Response_Format"}
       THEN {"response_format"}
  ELSE {}

\* "kw" in txt.lower()
Mentions(txt, kw) == kw \in Lowered(txt)

\* Header values, and int(value): an integer, or ValueError (Null here)
HeaderValues == {"60", "30", "1s"}

ParseInt(v) == IF v = "60" THEN Some(60) ELSE IF v = "30" THEN Some(30) ELSE Null

\* The two headers the adapters read; Null is an absent header
Headers(retry_after, reset_requests) ==
  [retry_after |-> retry_after, reset_requests |-> reset_requests]

NoHeaders == Headers(Null, Null)

\* The text of a message, in tokens: "{" and "}", "S" for the members
\* "verdict": "strong", "confidence": 0.8, "W" for the members
\* "verdict": "likely", "confidence": 1.5, "m" for any other member, "x" for prose
Tokens == {"{", "}", "S", "W", "m", "x"}

\* What one POST to the provider can end in
Resp(kind, status, body, hdr, content) ==
  [kind |-> kind, status |-> status, body |-> body, headers |-> hdr,
   content |-> content]

NoContent == << >>

\* Message contents of the runs: a JSON object with a verdict and a confidence
\* of the schema, one with a verdict and a confidence outside it, and text that
\* is no JSON
Contents == { << "{", "S", "}" >>, << "{", "W", "}" >>, << "x" >> }

Responses ==
  { Resp("http", 200, "", NoHeaders, c) : c \in Contents } \cup
  { Resp("http", 401, "invalid key", NoHeaders, NoContent),
    Resp("http", 429, "rate limit", Headers(Some("60"), Null), NoContent),
    Resp("http", 429, "quota", NoHeaders, NoContent),
    Resp("http", 503, "unavailable", NoHeaders, NoContent),
    Resp("http", 400, "response_format", NoHeaders, NoContent),
    Resp("http", 403, "forbidden", NoHeaders, NoContent),
    Resp("timeout", 0, "", NoHeaders, NoContent),
    Resp("connect", 0, "", NoHeaders, NoContent) }

\* The outcome of a call: what it returned or raised, and the requests it sent
Returned(out) == [raised |-> FALSE, exc |-> NoExc, out |-> out, posts |-> << >>]
Raised(exc) == [raised |-> TRUE, exc |-> exc, out |-> NoOutput, posts |-> << >>]
Sent(got, posts) == [got EXCEPT !.posts = posts]

\* Nesting depth after the first i tokens of s
RECURSIVE Depth(_, _)
Depth(s, i) ==
  IF i = 0 THEN 0
  ELSE Depth(s, i - 1) + (IF s[i] = "{" THEN 1 ELSE IF s[i] = "}" THEN -1 ELSE 0)

\* json.loads(s) succeeds with a dict: s is one object, braces balanced, its
\* members and nested objects only
IsJsonObject(s) ==
  /\ Len(s) >= 2
  /\ s[1] = "{"
  /\ \A i \in 1 .. Len(s) : s[i] # "x"
  /\ \A i \in 1 .. Len(s) - 1 : Depth(s, i) >= 1
  /\ Depth(s, Len(s)) = 0

\* The dict json.loads(s) gives: the verdict and confidence members of the
\* top level, when it has them (of a repeated key the last value)
LoadObject(s) ==
  LET members == {i \in 1 .. Len(s) : s[i] \in {"S", "W"} /\ Depth(s, i) = 1}
  IN IF members = {} THEN Output(Null, Null, Null)
     ELSE LET last == CHOOSE i \in members : \A k \in members : k <= i
          IN IF s[last] = "S" THEN Output(Some("strong"), Some(8), Null)
             ELSE Output(Some("likely"), Some(15), Null)

FallbackNoRaw(content) == Output(Some("inconclusive"), Some(0), Null)

\* lines 225-233 and 306-313: the fallback of a JSONDecodeError
Fallback(content) == Output(Some("inconclusive"), Some(0), Some(content))

\* lines 219-233: json.loads(content), or the fallback
ParseOpenAI(content) ==
  IF IsJsonObject(content) THEN LoadObject(content) ELSE Fallback(content)

\* re.search(r'\{[\s\S]*\}', content): from the first "{" to the last "}", the
\* star being greedy; the empty sequence when there is no match
GreedyMatch(content) ==
  LET opens == {i \in DOMAIN content : content[i] = "{"}
      closes == {i \in DOMAIN content : content[i] = "}"}
  IN IF opens = {} THEN << >>
     ELSE LET first == CHOOSE i \in opens : \A k \in opens : i <= k
              after == {k \in closes : k > first}
          IN IF after = {} THEN << >>
             ELSE LET last == CHOOSE k \in after : \A n \in after : n <= k
                  IN SubSeq(content, first, last)

\* lines 296-313: json.loads of the match, or of the content when nothing
\* matches, or the fallback
\* lines 299-304: the text handed to json.loads
JsonText(content) ==
  IF GreedyMatch(content) # << >> THEN GreedyMatch(content) ELSE content

ParseAnthropic(content) ==
  IF IsJsonObject(JsonText(content)) THEN LoadObject(JsonText(content))
  ELSE Fallback(content)

\* The retry_after of a 429: int() of the retry-after header and, where the
\* adapter reads it (lines 191-192), of x-ratelimit-reset-requests
RetryAfterHeader(hdr, reads_reset) ==
  IF hdr.retry_after # Null
  THEN [ok |-> ParseInt(hdr.retry_after[1]) # Null, value |-> ParseInt(hdr.retry_after[1])]
  ELSE IF reads_reset /\ hdr.reset_requests # Null
       THEN [ok |-> ParseInt(hdr.reset_requests[1]) # Null,
             value |-> ParseInt(hdr.reset_requests[1])]
  ELSE [ok |-> TRUE, value |-> Null]

\* lines 184-200 and 314-354: the branches on the status that the three
\* handlers share
ClassifyStatus(resp, reads_reset) ==
  IF resp.status = 401 THEN Exc("LLMAuthenticationError", resp.body, Null)
  ELSE IF resp.status = 429
       THEN IF ~RetryAfterHeader(resp.headers, reads_reset).ok
            THEN Exc("ValueError", "invalid literal for int()", Null)
            ELSE IF Mentions(resp.body, "quota") \/ Mentions(resp.body, "billing")
                 THEN Exc("LLMQuotaExceededError", resp.body, Null)
                 ELSE Exc("LLMRateLimitError", resp.body,
                          RetryAfterHeader(resp.headers, reads_reset).value)
       ELSE IF resp.status >= 500
            THEN Exc("LLMServiceUnavailableError", resp.body, Null)
            ELSE Exc("RuntimeError", resp.body, Null)

\* lines 314-354: _handle_http_error and _handle_anthropic_error
HandleHttpError(resp) == ClassifyStatus(resp, FALSE)

\* lines 168-233: _call_openai, resp2 answering the request re-sent without
\* response_format
CallOpenAI(resp1, resp2) ==
  IF resp1.kind = "timeout"
  THEN Sent(Raised(Exc("LLMServiceUnavailableError", "timeout", Null)), << "json_object" >>)
  ELSE IF resp1.kind = "connect"
       THEN Sent(Raised(Exc("LLMServiceUnavailableError", "connect", Null)), << "json_object" >>)
  ELSE IF resp1.status = 200
       THEN Sent(Returned(ParseOpenAI(resp1.content)), << "json_object" >>)
  ELSE IF resp1.status = 400 /\ Mentions(resp1.body, "response_format")
       THEN Sent(IF resp2.kind = "timeout"
                 THEN Raised(Exc("TimeoutException", "timeout", Null))
                 ELSE IF resp2.kind = "connect"
                      THEN Raised(Exc("ConnectError", "connect", Null))
                 ELSE IF resp2.status = 200 THEN Returned(ParseOpenAI(resp2.content))
                 ELSE Raised(HandleHttpError(resp2)),
                 << "json_object", "plain" >>)
  ELSE Sent(Raised(ClassifyStatus(resp1, TRUE)), << "json_object" >>)

\* lines 277-313: _call_anthropic
CallAnthropic(resp) ==
  IF resp.kind = "timeout"
  THEN Sent(Raised(Exc("LLMServiceUnavailableError", "timeout", Null)), << "plain" >>)
  ELSE IF resp.kind = "connect"
       THEN Sent(Raised(Exc("LLMServiceUnavailableError", "connect", Null)), << "plain" >>)
  ELSE IF resp.status = 200
       THEN Sent(Returned(ParseAnthropic(resp.content)), << "plain" >>)
  ELSE Sent(Raised(HandleHttpError(resp)), << "plain" >>)

\* lines 121-126: the provider branch of analyze_correlation
CallProvider(provider, resp1, resp2) ==
  IF provider = "openai" THEN CallOpenAI(resp1, resp2)
  ELSE IF provider = "anthropic" THEN CallAnthropic(resp1)
  ELSE Raised(Exc("ValueError", "unsupported provider", Null))

----------------------------------------------------------------------------
(* The tenacity decorator of analyze_correlation, lines 99-107 *)

Retryable ==
  {"TimeoutException", "ConnectError", "LLMServiceUnavailableError"}

RECURSIVE Pow2(_)
Pow2(n) == IF n <= 0 THEN 1 ELSE 2 * Pow2(n - 1)

\* wait_exponential(multiplier=1, min=2, max=30), in seconds, after the
\* attempt numbered n
BackoffWait(n) == Max(WaitMin, Min(WaitMultiplier * Pow2(n - 1), WaitMax))

RetryDecisionNoStop(exc, attempt) ==
  IF exc.cls \notin Retryable THEN [again |-> FALSE, exc |-> exc]
  ELSE IF attempt >= StopAfterAttempt + 1
       THEN [again |-> FALSE, exc |-> Exc("RetryError", "RetryError", Null)]
  ELSE [again |-> TRUE, exc |-> exc]

RetryDecisionRetryAll(exc, attempt) ==
  IF attempt >= StopAfterAttempt
  THEN [again |-> FALSE, exc |-> Exc("RetryError", "RetryError", Null)]
  ELSE [again |-> TRUE, exc |-> exc]

\* What the decorator does with an exception of the attempt numbered attempt:
\* it lets a non-retryable one through, retries a retryable one, and after the
\* last attempt raises RetryError (reraise is not set)
RetryDecision(exc, attempt) ==
  IF exc.cls \notin Retryable THEN [again |-> FALSE, exc |-> exc]
  ELSE IF attempt >= StopAfterAttempt
       THEN [again |-> FALSE, exc |-> Exc("RetryError", "RetryError", Null)]
  ELSE [again |-> TRUE, exc |-> exc]

\* line 118: asyncio.sleep(min(e.retry_after or 60, 60)), in seconds
RejectSleep(retry_after) ==
  Min(IF retry_after = 0 THEN MaxSleep ELSE retry_after, MaxSleep)

RateKeyShared(svc) == << "llm", "internal" >>

RateKeyPerInstance(svc) == << svc.provider, svc.api_key >>

\* line 115: the key f"{self.provider}_internal", as the pair (provider, "internal");
\* the api key of the instance is no part of it
RateKey(svc) == << svc.provider, "internal" >>

\* The key of a provider's window, whichever LLMService instance asks
ProviderKey(p) == RateKey([provider |-> p, api_key |-> "any"])

----------------------------------------------------------------------------
(* The record store: the Analysis and Result rows (models/__init__.py) and
   the SQLAlchemy session of one run *)

Runs == 1 .. NumRuns

\* models/__init__.py lines 32-49: the columns the orchestrator writes
NewAnalysis ==
  [status |-> "pending", completed_at |-> Null, ensembl_id |-> Null,
   disease_efo |-> Null]

\* models/__init__.py lines 52-63
ResultRow(evidence, llm_output, verdict, confidence, error_message) ==
  [evidence_json |-> evidence, llm_output_json |-> llm_output, verdict |-> verdict,
   confidence |-> confidence, error_message |-> error_message]

NoResult == ResultRow(Null, Null, Null, Null, Null)

NewRow == [analysis |-> NewAnalysis, results |-> << >>]

\* Session.commit(): it may raise; results.analysis_id is unique, so a second
\* Result row of the same analysis makes it raise
CommitOutcomes(r) ==
  IF Len(store[r].results) + Len(pending[r]) > 1 THEN {FALSE} ELSE BOOLEAN

CommittedWithoutResults(r) ==
  [analysis |-> analysis[r], results |-> store[r].results]

\* A commit that succeeds writes the object's columns and the added results
Committed(r) ==
  [analysis |-> analysis[r], results |-> store[r].results \o pending[r]]

----------------------------------------------------------------------------
(* AnalysisService, analysis_service.py *)

\* The bundle of _fetch_evidence, lines 165-174
Bundle(ensg, efo, ot, lit, gwas) ==
  [ensembl_id |-> ensg, efo_id |-> efo, opentargets |-> ot, literature |-> lit,
   gwas_catalog |-> gwas]

\* What _fetch_evidence can end in: a bundle (whose fragments may be Empty), or
\* the RuntimeError of resolve_gene_symbol or resolve_disease_label
FetchOutcomes ==
  { [raised |-> FALSE, msg |-> "",
     bundle |-> Bundle(Some("ENSG1"), Some("EFO_1"), Some("score"), << "hit" >>, << "assoc" >>)],
    [raised |-> TRUE, msg |-> "Could not resolve gene symbol",
     bundle |-> Bundle(Null, Null, Null, << >>, << >>)],
    [raised |-> TRUE, msg |-> "Could not resolve disease",
     bundle |-> Bundle(Null, Null, Null, << >>, << >>)] }

ErrorVerdictAllError(cls) ==
  IF cls = "LLMAuthenticationError" THEN << "API Authentication Error", "error" >>
  ELSE IF cls = "LLMQuotaExceededError" THEN << "API Quota Exceeded", "error" >>
  ELSE IF cls = "LLMRateLimitError" THEN << "API Rate Limited", "error" >>
  ELSE IF cls = "LLMServiceUnavailableError"
       THEN << "LLM Service Unavailable", "service_unavailable" >>
  ELSE << "Analysis Error", "error" >>

\* lines 76-95: the except clauses, by exception class: message prefix and verdict
ErrorVerdict(cls) ==
  IF cls = "LLMAuthenticationError" THEN << "API Authentication Error", "error" >>
  ELSE IF cls = "LLMQuotaExceededError" THEN << "API Quota Exceeded", "error" >>
  ELSE IF cls = "LLMRateLimitError" THEN << "API Rate Limited", "retry_later" >>
  ELSE IF cls = "LLMServiceUnavailableError"
       THEN << "LLM Service Unavailable", "service_unavailable" >>
  ELSE << "Analysis Error", "error" >>

\* lines 72-74: the result of a returned analyzer output
WithOutput(res, out) ==
  [res EXCEPT !.llm_output_json = Some(out),
              !.verdict = IF out.verdict = Null THEN Some("inconclusive") ELSE out.verdict,
              !.confidence = IF out.confidence = Null THEN Some(0) ELSE out.confidence]

\* lines 76-95: the result of a raised analyzer exception
WithError(res, exc) ==
  [res EXCEPT !.error_message = Some(<< ErrorVerdict(exc.cls)[1], exc.msg >>),
              !.verdict = Some(ErrorVerdict(exc.cls)[2]),
              !.confidence = Some(0)]

FailureResultNoMessage(res, exc) ==
  ResultRow(Null, Null, Some("error"), Some(0), Null)

\* lines 118-123: the Result of the failure handler
FailureResult(res, exc) ==
  ResultRow(Null, Null, Some("error"), Some(0), Some(<< exc.msg >>))

MarkCompletedNoTimestamp(a, ev) ==
  [a EXCEPT !.status = "completed",
            !.ensembl_id = ev.ensembl_id, !.disease_efo = ev.efo_id]

\* lines 101-109: status, completed_at and the identifiers of the evidence
MarkCompleted(a, ev) ==
  [a EXCEPT !.status = "completed", !.completed_at = Some("utcnow"),
            !.ensembl_id = ev.ensembl_id, !.disease_efo = ev.efo_id]

MarkFailedStatusKept(a) == [a EXCEPT !.completed_at = Some("utcnow")]

\* lines 115-116: status and completed_at of the failure handler
MarkFailed(a) == [a EXCEPT !.status = "failed", !.completed_at = Some("utcnow")]

\* No call studied alone
NoAnalyzerCall == [pc |-> "idle"]
NoUnit == [pc |-> "idle"]
NoAgg == [pc |-> "idle"]
NoFetcher == [pc |-> "idle"]
NoApp == [pc |-> "idle"]
NoExtractor == [pc |-> "idle"]
NoAuth == [pc |-> "idle"]

\* No analyze_correlation call in progress, no exception being handled
NoCall == [attempt |-> 0, wakeAt |-> 0, exc |-> NoExc]

\* What happened in the run so far: the outcome of _fetch_evidence and the text
\* of the exception it raised, whether a commit raised, the outcome of
\* analyze_correlation, the class it raised, and whether it was left because
\* the last attempt the decorator allows failed with a retryable exception
NoHist ==
  [fetch |-> "none", fetchMsg |-> "", commitFailed |-> FALSE, analyzer |-> "none",
   excCls |-> None, exhausted |-> FALSE]

Service(r) == [provider |-> request[r].provider, api_key |-> request[r].api_key]

\* Positions inside a stretch of code with no await: asyncio runs one task at a
\* time and switches tasks only at an await, so while a task is at one of
\* these no other task takes a step
SyncPcs == {"rate_check", "save", "commit", "handler", "commit_failed"}

Scheduled(r) == \A q \in Runs \ {r} : pc[q] \notin SyncPcs

\* lines 41-48: the record exists; status = "processing"; commit
Begin(r) ==
  /\ pc[r] = "start"
  /\ Scheduled(r)
  /\ \E ok \in CommitOutcomes(r) :
       IF ok
       THEN /\ analysis' = [analysis EXCEPT ![r].status = "processing"]
            /\ store' = [store EXCEPT ![r].analysis.status = "processing"]
            /\ pc' = [pc EXCEPT ![r] = "fetch"]
            /\ UNCHANGED << llm, hist >>
       ELSE /\ analysis' = [analysis EXCEPT ![r].status = "processing"]
            /\ llm' = [llm EXCEPT ![r].exc = Exc("OperationalError", "commit failed", Null)]
            /\ hist' = [hist EXCEPT ![r].commitFailed = TRUE]
            /\ pc' = [pc EXCEPT ![r] = "handler"]
            /\ UNCHANGED store
  /\ UNCHANGED << clock, nticks, ceiling, auxVars, rateVars, request, result, pending >>

\* lines 51-60: _fetch_evidence, the Result with the evidence, the model test
ModelRequestedAlways(req) == TRUE

\* line 60, `if request.model:`: the analyzer step is taken when the request
\* names a model
ModelRequested(req) == req.model # Null

FetchEvidence(r) ==
  /\ pc[r] = "fetch"
  /\ Scheduled(r)
  /\ \E f \in FetchOutcomes :
       IF f.raised
       THEN /\ llm' = [llm EXCEPT ![r].exc = Exc("RuntimeError", f.msg, Null)]
            /\ hist' = [hist EXCEPT ![r].fetch = "raised", ![r].fetchMsg = f.msg]
            /\ pc' = [pc EXCEPT ![r] = "handler"]
            /\ UNCHANGED result
       ELSE /\ result' = [result EXCEPT ![r] = [NoResult EXCEPT !.evidence_json = Some(f.bundle)]]
            /\ hist' = [hist EXCEPT ![r].fetch = "ok"]
            /\ pc' = [pc EXCEPT ![r] = IF ModelRequested(request[r]) THEN "rate_check" ELSE "save"]
            /\ llm' = [llm EXCEPT ![r].attempt = IF ModelRequested(request[r]) THEN 1 ELSE 0]
  /\ UNCHANGED << clock, nticks, ceiling, auxVars, rateVars, request, analysis, pending, store >>

\* llm_service.py lines 113-119, one attempt of analyze_correlation: the rate
\* check, which has no await in it
RateCheckStep(r) ==
  /\ pc[r] = "rate_check"
  /\ Scheduled(r)
  /\ LET key == RateKey(Service(r))
         res == CheckRateLimit(tracker, key, ceiling, clock)
     IN /\ RateBook(request[r].provider, key, ceiling, res)
        /\ IF res.raised
           THEN /\ llm' = [llm EXCEPT
                      ![r].exc = Exc("LLMRateLimitError", "internal", Some(res.retry_after)),
                      ![r].wakeAt = clock + RejectSleep(res.retry_after) * TicksPerSecond]
                /\ pc' = [pc EXCEPT ![r] = "reject_sleep"]
           ELSE /\ pc' = [pc EXCEPT ![r] = "dispatch"]
                /\ UNCHANGED llm
  /\ UNCHANGED << clock, nticks, ceiling, auxVars, lastCheck, lastReject, nchecks,
                  request, analysis, result, pending, store, hist >>

LeaveReraised(r, got, exhausted) ==
  /\ result' = [result EXCEPT ![r] =
       IF got.raised THEN @ ELSE WithOutput(@, got.out)]
  /\ hist' = [hist EXCEPT ![r].analyzer = IF got.raised THEN "raised" ELSE "returned",
                          ![r].excCls = got.exc.cls,
                          ![r].exhausted = exhausted]
  /\ llm' = [llm EXCEPT ![r] = [NoCall EXCEPT !.exc = got.exc]]
  /\ pc' = [pc EXCEPT ![r] = IF got.raised THEN "handler" ELSE "save"]

\* analyze_correlation is left: analysis_service.py lines 72-95 put the
\* returned output or the raised exception on the Result
Leave(r, got, exhausted) ==
  /\ result' = [result EXCEPT ![r] =
       IF got.raised THEN WithError(@, got.exc) ELSE WithOutput(@, got.out)]
  /\ hist' = [hist EXCEPT ![r].analyzer = IF got.raised THEN "raised" ELSE "returned",
                          ![r].excCls = got.exc.cls,
                          ![r].exhausted = exhausted]
  /\ llm' = [llm EXCEPT ![r] = NoCall]
  /\ pc' = [pc EXCEPT ![r] = "save"]

\* An attempt raised exc: the decorator retries after its wait, or the
\* exception it decides on leaves analyze_correlation
AfterRaise(r, exc) ==
  LET d == RetryDecision(exc, llm[r].attempt)
  IN IF d.again
     THEN /\ llm' = [llm EXCEPT ![r].exc = NoExc,
                       ![r].wakeAt = clock + BackoffWait(llm[r].attempt) * TicksPerSecond]
          /\ pc' = [pc EXCEPT ![r] = "backoff"]
          /\ UNCHANGED << result, hist >>
     ELSE Leave(r, Raised(d.exc),
                exc.cls \in Retryable /\ llm[r].attempt >= StopAfterAttempt)

\* line 118-119: the sleep after an internal rejection is over; raise
RejectSleepDone(r) ==
  /\ pc[r] = "reject_sleep"
  /\ Scheduled(r)
  /\ clock' = Max(clock, llm[r].wakeAt)
  /\ AfterRaise(r, llm[r].exc)
  /\ UNCHANGED << nticks, ceiling, auxVars, rateVars, request, analysis, pending, store >>

\* lines 121-126: the provider call of one attempt
Dispatch(r) ==
  /\ pc[r] = "dispatch"
  /\ Scheduled(r)
  /\ \E resp1 \in Responses :
     \E resp2 \in (IF request[r].provider = "openai" /\ resp1.status = 400
                   THEN Responses ELSE {resp1}) :
       LET got == CallProvider(request[r].provider, resp1, resp2)
       IN IF got.raised THEN AfterRaise(r, got.exc) ELSE Leave(r, got, FALSE)
  /\ UNCHANGED << clock, nticks, ceiling, auxVars, rateVars, request, analysis, pending, store >>

\* the decorator's wait is over: the next attempt calls the function again
BackoffDone(r) ==
  /\ pc[r] = "backoff"
  /\ Scheduled(r)
  /\ clock' = Max(clock, llm[r].wakeAt)
  /\ llm' = [llm EXCEPT ![r].attempt = @ + 1, ![r].wakeAt = 0]
  /\ pc' = [pc EXCEPT ![r] = "rate_check"]
  /\ UNCHANGED << nticks, ceiling, auxVars, rateVars, request, analysis, result, pending, store, hist >>

\* lines 98-109: add the result, status = "completed", completed_at, the ids
Save(r) ==
  /\ pc[r] = "save"
  /\ Scheduled(r)
  /\ pending' = [pending EXCEPT ![r] = Append(@, result[r])]
  /\ analysis' = [analysis EXCEPT ![r] = MarkCompleted(@, result[r].evidence_json[1])]
  /\ pc' = [pc EXCEPT ![r] = "commit"]
  /\ UNCHANGED << clock, nticks, ceiling, auxVars, rateVars, request, result, store, llm, hist >>

\* line 111: commit; a failure rolls the session back (the added Result is
\* expunged) and enters the handler
CommitCompleted(r) ==
  /\ pc[r] = "commit"
  /\ Scheduled(r)
  /\ \E ok \in CommitOutcomes(r) :
       IF ok
       THEN /\ store' = [store EXCEPT ![r] = Committed(r)]
            /\ pc' = [pc EXCEPT ![r] = "done"]
            /\ UNCHANGED << llm, hist >>
       ELSE /\ llm' = [llm EXCEPT ![r].exc = Exc("OperationalError", "commit failed", Null)]
            /\ hist' = [hist EXCEPT ![r].commitFailed = TRUE]
            /\ pc' = [pc EXCEPT ![r] = "handler"]
            /\ UNCHANGED store
  /\ pending' = [pending EXCEPT ![r] = << >>]
  /\ UNCHANGED << clock, nticks, ceiling, auxVars, rateVars, request, analysis, result >>

\* lines 113-124: status = "failed", completed_at, add the failure Result; the
\* columns a rollback expired read as committed
Handle(r) ==
  /\ pc[r] = "handler"
  /\ Scheduled(r)
  /\ analysis' = [analysis EXCEPT ![r] = MarkFailed(store[r].analysis)]
  /\ result' = [result EXCEPT ![r] = FailureResult(@, llm[r].exc)]
  /\ pending' = [pending EXCEPT ![r] = Append(@, FailureResult(result[r], llm[r].exc))]
  /\ llm' = [llm EXCEPT ![r] = NoCall]
  /\ pc' = [pc EXCEPT ![r] = "commit_failed"]
  /\ UNCHANGED << clock, nticks, ceiling, auxVars, rateVars, request, store, hist >>

\* line 125: commit of the handler; if it raises, the exception leaves run_analysis
CommitFailed(r) ==
  /\ pc[r] = "commit_failed"
  /\ Scheduled(r)
  /\ \E ok \in CommitOutcomes(r) :
       IF ok
       THEN /\ store' = [store EXCEPT ![r] = Committed(r)]
            /\ pc' = [pc EXCEPT ![r] = "done"]
            /\ UNCHANGED hist
       ELSE /\ hist' = [hist EXCEPT ![r].commitFailed = TRUE]
            /\ pc' = [pc EXCEPT ![r] = "raised"]
            /\ UNCHANGED store
  /\ pending' = [pending EXCEPT ![r] = << >>]
  /\ UNCHANGED << clock, nticks, ceiling, auxVars, rateVars, request, analysis, result, llm >>

\* The requests of the runs: with or without a model, on either provider, each
\* session with an api key of its own
Requests0 ==
  [Runs -> [model : {Null, Some("gpt-4o-mini")}, provider : Providers, api_key : {"k"}]]

\* Calls of earlier runs, recorded at time 0 and still in the window: they leave
\* room for the attempts of one analyze_correlation call, not of two
PriorLoads == {RequestsPerMinute - StopAfterAttempt}

Init ==
  /\ clock = 0
  /\ nticks = 0
  /\ ceiling = RequestsPerMinute
  /\ \E load \in PriorLoads :
       /\ tracker = IF load = 0 THEN EmptyMap
                    ELSE [k \in {ProviderKey(p) : p \in Providers} |-> [i \in 1 .. load |-> 0]]
       /\ admitted = IF load = 0 THEN EmptyMap
                     ELSE [p \in Providers |-> [i \in 1 .. load |-> 0]]
  /\ lastCheck = NoCheck
  /\ lastReject = EmptyMap
  /\ nchecks = 0
  /\ \E q \in Requests0 :
       request = [r \in Runs |-> [q[r] EXCEPT !.api_key = ToString(r)]]
  /\ pc = [r \in Runs |-> "start"]
  /\ analysis = [r \in Runs |-> NewAnalysis]
  /\ result = [r \in Runs |-> NoResult]
  /\ pending = [r \in Runs |-> << >>]
  /\ store = [r \in Runs |-> NewRow]
  /\ llm = [r \in Runs |-> NoCall]
  /\ hist = [r \in Runs |-> NoHist]
  /\ call = NoAnalyzerCall
  /\ unit = NoUnit
  /\ agg = NoAgg
  /\ fetcher = NoFetcher
  /\ app = NoApp
  /\ extractor = NoExtractor
  /\ auth = NoAuth

\* One step of run r: whichever of its operations is at its position.
RunStep(r) ==
  \/ Begin(r)
  \/ FetchEvidence(r)
  \/ RateCheckStep(r)
  \/ RejectSleepDone(r)
  \/ Dispatch(r)
  \/ BackoffDone(r)
  \/ Save(r)
  \/ CommitCompleted(r)
  \/ Handle(r)
  \/ CommitFailed(r)

Next == \E r \in Runs : RunStep(r)

Spec == Init /\ [][Next]_vars

\* The event loop runs a task that is ready: some run that can step does
SpecLive == Init /\ [][Next]_vars /\ WF_vars(Next)

----------------------------------------------------------------------------
(* Specification of the limiter alone: any caller, any provider key *)

\* No run is in progress
IdleRuns ==
  /\ request = [r \in Runs |-> [model |-> Null, provider |-> "openai", api_key |-> ToString(r)]]
  /\ pc = [r \in Runs |-> "idle"]
  /\ analysis = [r \in Runs |-> NewAnalysis]
  /\ result = [r \in Runs |-> NoResult]
  /\ pending = [r \in Runs |-> << >>]
  /\ store = [r \in Runs |-> NewRow]
  /\ llm = [r \in Runs |-> NoCall]
  /\ hist = [r \in Runs |-> NoHist]

InitRate ==
  /\ clock = 0
  /\ nticks = 0
  /\ ceiling \in 1 .. MaxRpm
  /\ tracker = EmptyMap
  /\ admitted = EmptyMap
  /\ lastCheck = NoCheck
  /\ lastReject = EmptyMap
  /\ nchecks = 0
  /\ IdleRuns
  /\ call = NoAnalyzerCall
  /\ unit = NoUnit
  /\ agg = NoAgg
  /\ fetcher = NoFetcher
  /\ app = NoApp
  /\ extractor = NoExtractor
  /\ auth = NoAuth

RateCheck(p) ==
  /\ nchecks < MaxChecks
  /\ RateBook(p, ProviderKey(p), ceiling,
              CheckRateLimit(tracker, ProviderKey(p), ceiling, clock))
  /\ RateLog(p, ProviderKey(p), ceiling,
             CheckRateLimit(tracker, ProviderKey(p), ceiling, clock))
  /\ UNCHANGED << clock, nticks, ceiling, auxVars, runVars >>

NextRate == Tick \/ \E p \in Providers : RateCheck(p)

SpecRate == InitRate /\ [][NextRate]_vars

----------------------------------------------------------------------------
(* Properties of the limiter *)

WindowTicks == Window * TicksPerSecond

\* The times of a list that lie in the trailing window (t - 60 s, t]
Trailing(times, t) == {i \in DOMAIN times : times[i] > t - WindowTicks /\ times[i] <= t}

\* The right ends that matter: a window ending between two admissions holds no
\* more calls than the window ending at the latest admission inside it
WindowEnds(key) ==
  {clock} \cup {Requests(admitted, key)[i] : i \in DOMAIN Requests(admitted, key)}

Checked == lastCheck.key # None

\* C7: for every provider the admitted calls inside any trailing 60-second
\* window never exceed the ceiling; a check is rejected exactly when the
\* in-window count of admitted calls is at or above the ceiling; a rejected
\* check records no timestamp.
C7_WindowNeverExceedsCeiling ==
  /\ \A key \in DOMAIN admitted : \A t \in WindowEnds(key) :
       Cardinality(Trailing(admitted[key], t)) <= ceiling
  /\ Checked =>
       /\ lastCheck.raised <=>
            Cardinality(Trailing(lastCheck.admittedBefore, lastCheck.now)) >= lastCheck.rpm
       /\ lastCheck.raised =>
            /\ Requests(admitted, lastCheck.key) = lastCheck.admittedBefore
            /\ Len(tracker[lastCheck.tkey]) <= Len(lastCheck.before)
            /\ \A i \in DOMAIN tracker[lastCheck.tkey] :
                 \E j \in DOMAIN lastCheck.before :
                   tracker[lastCheck.tkey][i] = lastCheck.before[j]

\* C7 witness: a full window rejected a check after the ceiling was reached
C7_Witness ==
  /\ Checked
  /\ lastCheck.raised
  /\ Len(lastCheck.admittedBefore) >= ceiling
  /\ ceiling >= 2

\* Age, in ticks, of the oldest call still inside the window at the last check
OldestAge ==
  LET inside == {lastCheck.before[i] : i \in Trailing(lastCheck.before, lastCheck.now)}
  IN lastCheck.now - (CHOOSE t \in inside : \A u \in inside : t <= u)

\* C8 as stated: a rejection's retry_after is > 0 and equals 61 minus the
\* whole seconds elapsed since the oldest call still inside the window.
C8_RetryAfterWholeSeconds ==
  (Checked /\ lastCheck.raised) =>
    /\ lastCheck.retry_after > 0
    /\ lastCheck.retry_after = WaitBase - (OldestAge \div TicksPerSecond)

\* C8 amended: a rejection's retry_after is > 0 and is 61 minus the elapsed
\* time truncated to whole seconds: the integer n with n <= 61 - elapsed < n + 1;
\* it is 61 minus the whole seconds elapsed when the elapsed time is whole.
C8_RetryAfterTruncated ==
  (Checked /\ lastCheck.raised) =>
    /\ lastCheck.retry_after > 0
    /\ lastCheck.retry_after * TicksPerSecond <= WaitBase * TicksPerSecond - OldestAge
    /\ WaitBase * TicksPerSecond - OldestAge < (lastCheck.retry_after + 1) * TicksPerSecond
    /\ OldestAge % TicksPerSecond = 0 =>
         lastCheck.retry_after = WaitBase - (OldestAge \div TicksPerSecond)

\* C8 witness: a rejection whose oldest in-window call is a fractional number
\* of seconds old
C8_Witness ==
  /\ Checked
  /\ lastCheck.raised
  /\ OldestAge % TicksPerSecond # 0

\* C9: a rejection is never permanent: a check made 61 seconds or more after
\* the latest recorded call is admitted and leaves only itself in the window;
\* a check made once a rejection's retry_after has elapsed, with no call
\* admitted in between, is admitted; after an admitted check the tracker holds
\* only calls of the last 60 seconds.
C9_RejectionNotPermanent ==
  Checked =>
    /\ (/\ lastCheck.before # << >>
        /\ lastCheck.now - SeqMax(lastCheck.before) >= WaitBase * TicksPerSecond)
         => /\ ~lastCheck.raised
            /\ tracker[lastCheck.tkey] = << lastCheck.now >>
    /\ \A rj \in lastCheck.rejects :
         lastCheck.now >= rj.at + rj.retry_after * TicksPerSecond => ~lastCheck.raised
    /\ ~lastCheck.raised =>
         \A i \in DOMAIN tracker[lastCheck.tkey] :
           /\ tracker[lastCheck.tkey][i] > lastCheck.now - WindowTicks
           /\ tracker[lastCheck.tkey][i] <= lastCheck.now

\* C9 witness: a check admitted after an earlier rejection's retry_after
\* elapsed, less than 61 seconds after the latest recorded call
C9_Witness ==
  /\ Checked
  /\ ~lastCheck.raised
  /\ lastCheck.before # << >>
  /\ lastCheck.now - SeqMax(lastCheck.before) < WaitBase * TicksPerSecond
  /\ \E rj \in lastCheck.rejects : lastCheck.now >= rj.at + rj.retry_after * TicksPerSecond

----------------------------------------------------------------------------
(* Properties of the orchestrator *)

\* The one-way moves of Analysis.status
LegalMove(a, b) ==
  \/ a = b
  \/ a = "pending" /\ b = "processing"
  \/ a = "processing" /\ b \in {"completed", "failed"}

Terminal == {"completed", "failed"}

\* run_analysis has returned, or has raised out of its failure handler
Ended(r) == pc[r] \in {"done", "raised"}

\* The Result row run r has persisted
Persisted(r) == store[r].results[1]

\* C1: the status of a run record only moves pending -> processing ->
\* completed or failed; no state is re-entered and a record that reached
\* completed or failed never changes status again, on any path of run_analysis.
C1_StatusOneWay ==
  [][\A r \in Runs : LegalMove(analysis[r].status, analysis'[r].status)]_vars

\* C2: every run_analysis call ends, and ends with the record in completed or
\* failed, whatever the resolution, the collectors and the analyzer did: the
\* object holds a terminal status, and so does the row whenever run_analysis
\* returned.
C2_EndsTerminal ==
  \A r \in Runs :
    <>[](/\ Ended(r)
         /\ analysis[r].status \in Terminal
         /\ pc[r] = "done" => store[r].analysis.status \in Terminal)

\* C2 witness: one run ended completed with the analyzer skipped, the other
\* ended failed
C2_Witness ==
  /\ pc[1] = "done" /\ request[1].model = Null /\ store[1].analysis.status = "completed"
  /\ pc[2] = "done" /\ store[2].analysis.status = "failed"

\* C3: when resolution and aggregation succeed the run ends completed with a
\* result whose evidence_json is non-null, whatever the analyzer step did
\* (skipped, returned, raised any class); no analyzer failure makes the status
\* failed or enters the failure handler. (Runs whose commits the store accepts.)
C3_AnalyzerNeverFails ==
  \A r \in Runs :
    (hist[r].fetch = "ok" /\ ~hist[r].commitFailed) =>
      /\ analysis[r].status # "failed"
      /\ pc[r] \notin {"handler", "commit_failed", "raised"}
      /\ pc[r] \in {"save", "commit", "done"} => result[r].evidence_json # Null
      /\ pc[r] = "done" =>
           /\ store[r].analysis.status = "completed"
           /\ Len(store[r].results) = 1
           /\ Persisted(r).evidence_json # Null

\* C3 witness: one run completed after the analyzer raised, the other after it
\* returned, both with evidence
C3_Witness ==
  /\ pc[1] = "done" /\ hist[1].analyzer = "raised"
  /\ store[1].analysis.status = "completed" /\ Persisted(1).evidence_json # Null
  /\ pc[2] = "done" /\ hist[2].analyzer = "returned"
  /\ store[2].analysis.status = "completed" /\ Persisted(2).evidence_json # Null

\* C4 as stated: when every provider dispatch of a run failed with a 5xx, a
\* timeout or a connection failure until the retries were exhausted, the run is
\* completed with verdict service_unavailable and confidence 0.0.
C4_ServiceUnavailableVerdict ==
  \A r \in Runs :
    (pc[r] = "done" /\ hist[r].exhausted /\ ~hist[r].commitFailed) =>
      /\ store[r].analysis.status = "completed"
      /\ Persisted(r).verdict = Some("service_unavailable")
      /\ Persisted(r).confidence = Some(0)

\* C5: when the analyzer raises, the persisted verdict follows the error
\* class: LLMAuthenticationError -> error, LLMQuotaExceededError -> error,
\* LLMRateLimitError -> retry_later, any class without a clause of its own ->
\* error; confidence is 0.0, error_message is set, llm_output_json is null.
C5_VerdictByErrorClass ==
  \A r \in Runs :
    (hist[r].analyzer = "raised" /\ ~hist[r].commitFailed) =>
      /\ pc[r] \in {"save", "commit", "done"}
      /\ pc[r] = "done" => store[r].results = << result[r] >>
      /\ hist[r].excCls \in {"LLMAuthenticationError", "LLMQuotaExceededError"} =>
           result[r].verdict = Some("error")
      /\ hist[r].excCls = "LLMRateLimitError" => result[r].verdict = Some("retry_later")
      /\ hist[r].excCls \notin {"LLMAuthenticationError", "LLMQuotaExceededError",
                                "LLMRateLimitError", "LLMServiceUnavailableError"} =>
           result[r].verdict = Some("error")
      /\ result[r].confidence = Some(0)
      /\ result[r].error_message # Null
      /\ result[r].llm_output_json = Null

\* C5 witness: a persisted retry_later of a rate-limited run beside a
\* persisted error of a run whose key was refused
C5_Witness ==
  /\ pc[1] = "done" /\ hist[1].excCls = "LLMRateLimitError"
  /\ Persisted(1).verdict = Some("retry_later")
  /\ pc[2] = "done" /\ hist[2].excCls = "LLMAuthenticationError"
  /\ Persisted(2).verdict = Some("error")

\* C6: when resolution or aggregation raises, the analyzer is never invoked,
\* the run ends failed, and the persisted result is verdict error, confidence
\* 0.0, error_message the text of the exception, evidence_json null.
C6_FetchFailureFails ==
  \A r \in Runs :
    hist[r].fetch = "raised" =>
      /\ hist[r].analyzer = "none"
      /\ llm[r].attempt = 0
      /\ pc[r] \in {"handler", "commit_failed", "done", "raised"}
      /\ Ended(r) => analysis[r].status = "failed"
      /\ pc[r] = "done" =>
           /\ store[r].analysis.status = "failed"
           /\ store[r].results =
                << ResultRow(Null, Null, Some("error"), Some(0), Some(<< hist[r].fetchMsg >>)) >>

\* C6 witness: a run that could not resolve its disease ended failed with that
\* message, the request having named a model
C6_Witness ==
  /\ pc[1] = "done" /\ hist[1].fetch = "raised" /\ request[1].model # Null
  /\ hist[1].fetchMsg = "Could not resolve disease"
  /\ Persisted(1).error_message = Some(<< "Could not resolve disease" >>)
  /\ store[1].analysis.status = "failed"

\* C10: the window of a provider is one for all runs and instances using the
\* provider, and check-and-record is atomic: under every interleaving no more
\* than 20 calls are admitted within any 60-second window, and every admitted
\* call still inside the window is in the provider's list.
C10_SharedWindowAtomic ==
  /\ DOMAIN tracker \subseteq {ProviderKey(p) : p \in Providers}
  /\ \A p \in DOMAIN admitted :
       /\ \A t \in WindowEnds(p) :
            Cardinality(Trailing(admitted[p], t)) <= RequestsPerMinute
       /\ InWindow(Requests(tracker, ProviderKey(p)), clock) = InWindow(admitted[p], clock)

\* C10 witness: two runs with different api keys on one provider, both admitted
\* before, filled the window together and the next attempt was rejected
C10_Witness ==
  /\ request[1].provider = request[2].provider
  /\ request[1].api_key # request[2].api_key
  /\ pc[1] = "reject_sleep" /\ llm[1].attempt = 2
  /\ llm[2].attempt = 2
  /\ Len(InWindow(admitted[request[1].provider], clock)) = RequestsPerMinute

----------------------------------------------------------------------------
(* Properties of the analyzer *)

\* C11 as stated: when the internal rate check rejects a call, the rate-limit
\* error reaches the caller at once: between the rejection and the error there
\* is no sleep (the clock does not move) and no provider dispatch.
C11_RejectImmediately ==
  [][\A r \in Runs :
       (pc[r] = "reject_sleep" /\ pc'[r] # "reject_sleep") =>
         /\ clock' = clock
         /\ pc'[r] = "save"
         /\ hist'[r].excCls = "LLMRateLimitError"]_vars

----------------------------------------------------------------------------
(* Specification of one analyze_correlation call taken alone, as the unit
   tests of LLMService make it: the decorator's loop around the rate check and
   the provider call, with a log of what each attempt did *)

\* LLMService.__init__ accepts any provider name
ServiceProviders == Providers \cup {"invalid"}

\* Calls already in the window when the call starts: none, one short of the
\* ceiling, the ceiling
CallLoads == {0, RequestsPerMinute - 1, RequestsPerMinute}

\* One entry of the log: the attempt, whether the rate check let it through to
\* the provider branch, what it raised (NoExc when it returned) or returned,
\* the requests it sent and the time it ended
Attempt(n, dispatched, got, at) ==
  [attempt |-> n, dispatched |-> dispatched, cls |-> got.exc.cls, exc |-> got.exc,
   out |-> got.out, posts |-> got.posts, at |-> at]

NewCall(p) ==
  [pc |-> "rate_check", provider |-> p, api_key |-> "k", attempt |-> 1, wakeAt |-> 0,
   exc |-> NoExc, out |-> NoOutput, log |-> << >>, slept |-> 0]

InitCall ==
  /\ clock = 0
  /\ nticks = 0
  /\ ceiling = RequestsPerMinute
  /\ lastCheck = NoCheck
  /\ lastReject = EmptyMap
  /\ nchecks = 0
  /\ IdleRuns
  /\ unit = NoUnit
  /\ agg = NoAgg
  /\ fetcher = NoFetcher
  /\ app = NoApp
  /\ extractor = NoExtractor
  /\ auth = NoAuth
  /\ \E p \in ServiceProviders, load \in CallLoads :
       /\ call = NewCall(p)
       /\ tracker = [k \in {ProviderKey(p)} |-> [i \in 1 .. load |-> 0]]
       /\ admitted = [k \in {p} |-> [i \in 1 .. load |-> 0]]

\* The attempt ended by raising exc: the decorator waits and tries again, or
\* the exception it decides on leaves analyze_correlation
CallAfterRaise(exc, entry) ==
  LET d == RetryDecision(exc, call.attempt)
  IN call' = IF d.again
             THEN [call EXCEPT !.pc = "backoff", !.exc = NoExc,
                               !.wakeAt = clock + BackoffWait(call.attempt) * TicksPerSecond,
                               !.log = Append(@, entry)]
             ELSE [call EXCEPT !.pc = "raised", !.exc = d.exc, !.log = Append(@, entry)]

\* lines 113-115: the rate check of the attempt
CallRateCheck ==
  /\ call.pc = "rate_check"
  /\ LET res == CheckRateLimit(tracker, RateKey(call), ceiling, clock)
     IN /\ RateBook(call.provider, RateKey(call), ceiling, res)
        /\ call' = IF res.raised
                   THEN [call EXCEPT
                           !.pc = "reject_sleep",
                           !.exc = Exc("LLMRateLimitError", "internal", Some(res.retry_after)),
                           !.wakeAt = clock + RejectSleep(res.retry_after) * TicksPerSecond]
                   ELSE [call EXCEPT !.pc = "dispatch"]
  /\ UNCHANGED << clock, nticks, ceiling, lastCheck, lastReject, nchecks, runVars, unit, agg, fetcher, app, extractor, auth >>

\* lines 116-119: the sleep is over, the rejection is raised
CallRejectSleepDone ==
  /\ call.pc = "reject_sleep"
  /\ clock' = Max(clock, call.wakeAt)
  /\ CallAfterRaise(call.exc,
                    Attempt(call.attempt, FALSE, Raised(call.exc), Max(clock, call.wakeAt)))
  /\ UNCHANGED << nticks, ceiling, rateVars, runVars, unit, agg, fetcher, app, extractor, auth >>

\* lines 121-126: the provider branch of the attempt
CallDispatch ==
  /\ call.pc = "dispatch"
  /\ \E resp1 \in Responses :
     \E resp2 \in (IF call.provider = "openai" /\ resp1.status = 400
                   THEN Responses ELSE {resp1}) :
       LET got == CallProvider(call.provider, resp1, resp2)
       IN IF got.raised
          THEN CallAfterRaise(got.exc, Attempt(call.attempt, TRUE, got, clock))
          ELSE call' = [call EXCEPT
                          !.pc = "returned", !.out = got.out,
                          !.log = Append(@, Attempt(call.attempt, TRUE, got, clock))]
  /\ UNCHANGED << clock, nticks, ceiling, rateVars, runVars, unit, agg, fetcher, app, extractor, auth >>

\* the decorator's wait is over: the function is called again
CallBackoffDone ==
  /\ call.pc = "backoff"
  /\ clock' = Max(clock, call.wakeAt)
  /\ call' = [call EXCEPT !.pc = "rate_check", !.attempt = @ + 1, !.wakeAt = 0,
                          !.slept = @ + (Max(clock, call.wakeAt) - clock)]
  /\ UNCHANGED << nticks, ceiling, rateVars, runVars, unit, agg, fetcher, app, extractor, auth >>

NextCall == CallRateCheck \/ CallRejectSleepDone \/ CallDispatch \/ CallBackoffDone

SpecCall == InitCall /\ [][NextCall]_vars

----------------------------------------------------------------------------
(* Specification of one provider adapter call taken alone, as the unit tests
   make it with a mocked httpx client: _call_openai or _call_anthropic applied
   to the responses the client gives *)

\* Message contents: every text of at most MaxContentLen tokens
UnitContents == UNION { [1 .. n -> Tokens] : n \in 0 .. MaxContentLen }

UnitStatuses == {400, 401, 403, 429, 500, 503}

OptionalHeader == {Null} \cup { Some(v) : v \in HeaderValues }

\* What the mocked client can answer a POST with
UnitResponses ==
  { Resp("http", 200, "", NoHeaders, c) : c \in UnitContents } \cup
  { Resp("http", st, b, Headers(ra, rr), NoContent) :
      st \in UnitStatuses, b \in Bodies, ra \in OptionalHeader, rr \in OptionalHeader } \cup
  { Resp("timeout", 0, "", NoHeaders, NoContent),
    Resp("connect", 0, "", NoHeaders, NoContent) }

\* _call_openai sends a second request
Resends(provider, resp1) ==
  /\ provider = "openai"
  /\ resp1.kind = "http"
  /\ resp1.status = 400
  /\ Mentions(resp1.body, "response_format")

InitUnit ==
  /\ clock = 0
  /\ nticks = 0
  /\ ceiling = RequestsPerMinute
  /\ tracker = EmptyMap
  /\ admitted = EmptyMap
  /\ lastCheck = NoCheck
  /\ lastReject = EmptyMap
  /\ nchecks = 0
  /\ IdleRuns
  /\ call = NoAnalyzerCall
  /\ agg = NoAgg
  /\ fetcher = NoFetcher
  /\ app = NoApp
  /\ extractor = NoExtractor
  /\ auth = NoAuth
  /\ \E p \in Providers, resp1 \in UnitResponses :
     \E resp2 \in (IF Resends(p, resp1) THEN UnitResponses ELSE {resp1}) :
       unit = [pc |-> "ready", provider |-> p, resp1 |-> resp1, resp2 |-> resp2,
               got |-> Returned(NoOutput)]

\* lines 128-233
UnitOpenAI ==
  /\ unit.pc = "ready"
  /\ unit.provider = "openai"
  /\ unit' = [unit EXCEPT !.pc = "done", !.got = CallOpenAI(unit.resp1, unit.resp2)]
  /\ UNCHANGED << clock, nticks, ceiling, rateVars, runVars, call, agg, fetcher, app, extractor, auth >>

\* lines 235-313
UnitAnthropic ==
  /\ unit.pc = "ready"
  /\ unit.provider = "anthropic"
  /\ unit' = [unit EXCEPT !.pc = "done", !.got = CallAnthropic(unit.resp1)]
  /\ UNCHANGED << clock, nticks, ceiling, rateVars, runVars, call, agg, fetcher, app, extractor, auth >>

NextUnit == UnitOpenAI \/ UnitAnthropic

SpecUnit == InitUnit /\ [][NextUnit]_vars

----------------------------------------------------------------------------
(* Specification of one _fetch_evidence call taken alone, analysis_service.py
   lines 127-174: the resolvers, the collector tasks under asyncio.gather, and
   the bundle *)

Collectors == {"opentargets", "literature", "gwas"}

TasksAlwaysGwas(include_gwas) == << "opentargets", "literature", "gwas" >>

\* lines 135-154: the coroutines handed to gather, in argument order
Tasks(include_gwas) ==
  IF include_gwas THEN << "opentargets", "literature", "gwas" >>
  ELSE << "opentargets", "literature" >>

Started(include_gwas) == { Tasks(include_gwas)[i] : i \in DOMAIN Tasks(include_gwas) }

\* What a collector returns: nothing found, or its fragment
Returns(c) ==
  IF c = "opentargets" THEN {Null, Some("score")}
  ELSE IF c = "literature" THEN {<< >>, << "hit" >>}
  ELSE {<< >>, << "assoc" >>}

\* How a collector task ends: it returns a value, or raises and gather keeps
\* the exception as the task's result
TaskReturned(v) == [raised |-> FALSE, value |-> v]
TaskRaised(c) == [raised |-> TRUE, value |-> << "exception", c >>]
TaskOutcomes(c) == {TaskRaised(c)} \cup { TaskReturned(v) : v \in Returns(c) }

\* A slot of gather's result list that no task has filled
Unfilled == [raised |-> FALSE, value |-> << "unfilled" >>]

NoBundle == Bundle(Null, Null, Null, << >>, << >>)

SlotByArrival(tasks, c, order) == Len(order) + 1

\* gather returns the results in the order of its arguments
Slot(tasks, c, order) == CHOOSE i \in DOMAIN tasks : tasks[i] = c

JoinedOnFirstError(a) ==
  \/ \E c \in Started(a.include_gwas) : a.status[c] = "finished" /\ a.outcome[c].raised
  \/ \A c \in Started(a.include_gwas) : a.status[c] = "finished"

\* line 156: gather(..., return_exceptions=True) is done when every task is
Joined(a) == \A c \in Started(a.include_gwas) : a.status[c] = "finished"

FragmentRaw(res, empty) == res.value

\* lines 159-163: results[i] if not isinstance(results[i], Exception) else empty
Fragment(res, empty) == IF res.raised THEN empty ELSE res.value

\* lines 158-174
BuildBundle(a) ==
  Bundle(Some("ENSG1"), Some("EFO_1"),
         Fragment(a.results[1], Null),
         Fragment(a.results[2], << >>),
         IF a.include_gwas /\ Len(a.results) > 2 THEN Fragment(a.results[3], << >>)
         ELSE << >>)

InitFetch ==
  /\ clock = 0
  /\ nticks = 0
  /\ ceiling = RequestsPerMinute
  /\ tracker = EmptyMap
  /\ admitted = EmptyMap
  /\ lastCheck = NoCheck
  /\ lastReject = EmptyMap
  /\ nchecks = 0
  /\ IdleRuns
  /\ call = NoAnalyzerCall
  /\ unit = NoUnit
  /\ fetcher = NoFetcher
  /\ app = NoApp
  /\ extractor = NoExtractor
  /\ auth = NoAuth
  /\ \E gw \in BOOLEAN, md \in BOOLEAN, rs \in {"ok", "gene", "disease"} :
     \E oc \in [Collectors -> UNION { TaskOutcomes(c) : c \in Collectors }] :
       /\ \A c \in Collectors : oc[c] \in TaskOutcomes(c)
       /\ (~gw => oc["gwas"] = TaskReturned(<< >>))
       /\ agg = [pc |-> "resolve", include_gwas |-> gw, resolve |-> rs, outcome |-> oc,
                 status |-> [c \in Collectors |-> "unstarted"],
                 results |-> << >>, order |-> << >>, bundle |-> NoBundle, msg |-> "",
                 model |-> md, calls |-> << >>]

InvokedAlways(a) ==
  << "resolve_gene_symbol", "resolve_disease_label" >> \o Tasks(a.include_gwas)

\* lines 131-156, the functions _fetch_evidence has called when it raises or
\* reaches gather: resolve_gene_symbol; if it returned, resolve_disease_label;
\* if that returned too, the collectors, which gather starts in argument order
Invoked(a) ==
  IF a.resolve = "gene" THEN << "resolve_gene_symbol" >>
  ELSE IF a.resolve = "disease" THEN << "resolve_gene_symbol", "resolve_disease_label" >>
  ELSE << "resolve_gene_symbol", "resolve_disease_label" >> \o Tasks(a.include_gwas)

\* lines 131-132: resolve_gene_symbol, then resolve_disease_label; lines
\* 135-156: the tasks are created and gather starts them all
AggResolve ==
  /\ agg.pc = "resolve"
  /\ agg' = IF agg.resolve = "gene"
            THEN [agg EXCEPT !.pc = "raised", !.msg = "Could not resolve gene symbol",
                             !.calls = Invoked(agg)]
            ELSE IF agg.resolve = "disease"
                 THEN [agg EXCEPT !.pc = "raised", !.msg = "Could not resolve disease",
                                  !.calls = Invoked(agg)]
            ELSE [agg EXCEPT
                    !.pc = "gather",
                    !.calls = Invoked(agg),
                    !.status = [c \in Collectors |->
                                  IF c \in Started(agg.include_gwas) THEN "running"
                                  ELSE "unstarted"],
                    !.results = [i \in DOMAIN Tasks(agg.include_gwas) |-> Unfilled]]
  /\ UNCHANGED << clock, nticks, ceiling, rateVars, runVars, call, unit, fetcher, app, extractor, auth >>

\* a running collector task ends, in any order with its siblings
AggFinish(c) ==
  /\ agg.pc = "gather"
  /\ agg.status[c] = "running"
  /\ agg' = [agg EXCEPT
               !.status[c] = "finished",
               !.results[Slot(Tasks(agg.include_gwas), c, agg.order)] = agg.outcome[c],
               !.order = Append(@, c)]
  /\ UNCHANGED << clock, nticks, ceiling, rateVars, runVars, call, unit, fetcher, app, extractor, auth >>

\* lines 156-174: gather returns and the bundle is assembled
AggJoin ==
  /\ agg.pc = "gather"
  /\ Joined(agg)
  /\ agg' = [agg EXCEPT !.pc = "done", !.bundle = BuildBundle(agg)]
  /\ UNCHANGED << clock, nticks, ceiling, rateVars, runVars, call, unit, fetcher, app, extractor, auth >>

\* run_analysis lines 51-70: with the bundle returned and a model requested,
\* analyze_correlation is called
AggAnalyze ==
  /\ agg.pc = "done"
  /\ agg.model
  /\ agg' = [agg EXCEPT !.pc = "analyzed", !.calls = Append(@, "analyze_correlation")]
  /\ UNCHANGED << clock, nticks, ceiling, rateVars, runVars, call, unit, fetcher, app, extractor, auth >>

NextFetch == AggResolve \/ (\E c \in Collectors : AggFinish(c)) \/ AggJoin \/ AggAnalyze

SpecFetch == InitFetch /\ [][NextFetch]_vars

----------------------------------------------------------------------------
(* Specification of one data_fetcher call taken alone, data_fetcher.py: the two
   resolvers and the three collectors, applied to what the remote service
   answers *)

\* What a data_fetcher function ends in
Gave(v) == [raised |-> FALSE, cls |-> None, value |-> v]
Threw(cls) == [raised |-> TRUE, cls |-> cls, value |-> << >>]

\* fetch_json, lines 29-46, all attempts taken together: the parsed body, or
\* the RetryError tenacity raises when the last attempt failed (reraise unset)
ServiceError == [error |-> TRUE, data |-> << >>]
ServiceData(d) == [error |-> FALSE, data |-> d]

FetchJson(ans) == IF ans.error THEN Threw("RetryError") ELSE Gave(ans.data)

\* The Ensembl lookup body: data.get("id") is a string, or absent (Null)
GeneAnswers ==
  {ServiceError} \cup { ServiceData([id |-> i]) : i \in {Some("ENSG1"), Some(""), Null} }

\* lines 49-60
ResolveGeneSymbol(ans) ==
  IF FetchJson(ans).raised THEN Threw("RuntimeError")
  ELSE Gave([ensg |-> ans.data.id, synonyms |-> << "symbol" >>])

\* An OLS document: its ontology ("none" when it names none) and short form
Ontologies == {"efo", "mondo", "hp", "none"}
ShortForms == {"EFO_1", "2", "MONDO_3"}
OlsDocs == [onto : Ontologies, short : ShortForms]
DocLists == UNION { [1 .. n -> OlsDocs] : n \in 0 .. MaxDocs }
DiseaseAnswers == {ServiceError} \cup { ServiceData(d) : d \in DocLists }

\* lines 88-92: the short form with the prefix EFO_ unless it has it
EfoId(short) ==
  IF short = "EFO_1" THEN "EFO_1" ELSE IF short = "2" THEN "EFO_2" ELSE "EFO_MONDO_3"

\* lines 93-97: the short form with the prefix MONDO: unless it starts with MONDO
MondoId(short) ==
  IF short = "MONDO_3" THEN "MONDO_3" ELSE IF short = "2" THEN "MONDO:2"
  ELSE "MONDO:EFO_1"

BestLast(docs, onto) ==
  LET hits == {i \in DOMAIN docs : docs[i].onto = onto}
  IN IF hits = {} THEN Null
     ELSE Some(docs[CHOOSE i \in hits : \A k \in hits : i >= k])

\* lines 80-87: the first document of the ontology, in the order of the list
Best(docs, onto) ==
  LET hits == {i \in DOMAIN docs : docs[i].onto = onto}
  IN IF hits = {} THEN Null
     ELSE Some(docs[CHOOSE i \in hits : \A k \in hits : i <= k])

\* lines 63-111; fetch_json is called outside any try
ResolveDiseaseLabel(ans) ==
  IF FetchJson(ans).raised THEN FetchJson(ans)
  ELSE LET best_efo == Best(ans.data, "efo")
           best_mondo == Best(ans.data, "mondo")
       IN IF best_efo = Null /\ best_mondo = Null THEN Threw("RuntimeError")
          ELSE Gave([efo_id |-> IF best_efo = Null THEN "" ELSE EfoId(best_efo[1].short),
                     mondo_id |-> IF best_mondo = Null THEN Null
                                  ELSE Some(MondoId(best_mondo[1].short))])

\* The Europe PMC and GWAS Catalog bodies: the records that pass the filters
ListAnswers == {ServiceError, ServiceData(<< >>), ServiceData(<< "rec" >>)}

\* lines 186-231: fetch_json is called outside any try
GetLiteratureEvidence(ans) ==
  IF FetchJson(ans).raised THEN FetchJson(ans) ELSE Gave(ans.data)

\* lines 234-288: except Exception: return []
GetGwasAssociations(ans) ==
  IF FetchJson(ans).raised THEN Gave(<< >>) ELSE Gave(ans.data)

\* One page of associatedTargets: its rows (none, rows of other targets, rows
\* with the requested target among them) and the count it reports
PageCounts == { n * DEFAULT_OPENTARGETS_SIZE : n \in 0 .. MaxPages }
Pages ==
  {ServiceError} \cup
  { ServiceData([rows |-> r, count |-> n]) : r \in {"empty", "others", "target"},
                                             n \in PageCounts }

\* What the service answers to the request of each page index (from 0)
PageServices == [1 .. MaxPages -> Pages]

NewFetcher(fn, service) ==
  [pc |-> "ready", fn |-> fn, service |-> service, index |-> 0, requested |-> << >>,
   got |-> Gave(<< >>)]

InitFetcher ==
  /\ clock = 0
  /\ nticks = 0
  /\ ceiling = RequestsPerMinute
  /\ tracker = EmptyMap
  /\ admitted = EmptyMap
  /\ lastCheck = NoCheck
  /\ lastReject = EmptyMap
  /\ nchecks = 0
  /\ IdleRuns
  /\ call = NoAnalyzerCall
  /\ unit = NoUnit
  /\ agg = NoAgg
  /\ app = NoApp
  /\ extractor = NoExtractor
  /\ auth = NoAuth
  /\ \/ \E a \in GeneAnswers : fetcher = NewFetcher("resolve_gene_symbol", a)
     \/ \E a \in DiseaseAnswers : fetcher = NewFetcher("resolve_disease_label", a)
     \/ \E a \in ListAnswers : fetcher = NewFetcher("get_literature_evidence", a)
     \/ \E a \in ListAnswers : fetcher = NewFetcher("get_gwas_associations", a)
     \/ \E sv \in PageServices : fetcher = NewFetcher("get_opentargets_association", sv)

\* A function that makes one request: it is applied to the answer
Finish(got) ==
  fetcher' = [fetcher EXCEPT !.pc = "done", !.got = got, !.requested = << 0 >>]

NotFetcher == << clock, nticks, ceiling, rateVars, runVars, call, unit, agg, app, extractor, auth >>

GeneCall ==
  /\ fetcher.pc = "ready"
  /\ fetcher.fn = "resolve_gene_symbol"
  /\ Finish(ResolveGeneSymbol(fetcher.service))
  /\ UNCHANGED NotFetcher

DiseaseCall ==
  /\ fetcher.pc = "ready"
  /\ fetcher.fn = "resolve_disease_label"
  /\ Finish(ResolveDiseaseLabel(fetcher.service))
  /\ UNCHANGED NotFetcher

LiteratureCall ==
  /\ fetcher.pc = "ready"
  /\ fetcher.fn = "get_literature_evidence"
  /\ Finish(GetLiteratureEvidence(fetcher.service))
  /\ UNCHANGED NotFetcher

GwasCall ==
  /\ fetcher.pc = "ready"
  /\ fetcher.fn = "get_gwas_associations"
  /\ Finish(GetGwasAssociations(fetcher.service))
  /\ UNCHANGED NotFetcher

LastPageBeforeIncrement(index, count) == index * DEFAULT_OPENTARGETS_SIZE >= count

\* lines 155-161: total = count or 0; index += 1; stop when index * size >= total
LastPage(index, count) == (index + 1) * DEFAULT_OPENTARGETS_SIZE >= count

\* lines 136-163, one turn of the while loop of get_opentargets_association:
\* the page at fetcher.index is requested
OpenTargetsPage ==
  /\ fetcher.pc \in {"ready", "paging"}
  /\ fetcher.fn = "get_opentargets_association"
  /\ LET page == fetcher.service[fetcher.index + 1]
         asked == Append(fetcher.requested, fetcher.index)
     IN fetcher' =
          IF FetchJson(page).raised
          THEN [fetcher EXCEPT !.pc = "done", !.requested = asked, !.got = Gave(Null)]
          ELSE IF page.data.rows = "target"
               THEN [fetcher EXCEPT !.pc = "done", !.requested = asked,
                                    !.got = Gave(Some("score"))]
          ELSE IF LastPage(fetcher.index, page.data.count)
               THEN [fetcher EXCEPT !.pc = "done", !.requested = asked, !.got = Gave(Null)]
          ELSE [fetcher EXCEPT !.pc = "paging", !.requested = asked, !.index = @ + 1]
  /\ UNCHANGED NotFetcher

NextFetcher == GeneCall \/ DiseaseCall \/ LiteratureCall \/ GwasCall \/ OpenTargetsPage

SpecFetcher == InitFetcher /\ [][NextFetcher]_vars

----------------------------------------------------------------------------
(* Properties of the retry loop *)

\* The attempts of the log that reached the provider branch
Dispatched(log) == SelectSeq(log, LAMBDA e : e.dispatched)

\* The attempt ended in a failure the decorator retries
RetryableFailure(e) == e.dispatched /\ e.cls \in Retryable

\* The attempt ended in a failure the decorator lets through
FatalFailure(e) == e.dispatched /\ e.cls # None /\ e.cls \notin Retryable

\* C12: a ServiceUnavailable-class failure is retried with bounded attempts:
\* analyze_correlation dispatches at most 3 times, every attempt but the last
\* ended in a retryable failure (so the first success is returned and nothing
\* follows it), a retryable failure before the third attempt is followed by a
\* wait and another attempt, and the call gives up (RetryError) exactly when the
\* third attempt in a row ended in a retryable failure.
C12_BoundedAttempts ==
  LET log == call.log
      n == Len(log)
  IN /\ Len(Dispatched(log)) <= StopAfterAttempt
     /\ \A i \in 1 .. n : log[i].attempt = i
     /\ \A i \in 1 .. n - 1 : RetryableFailure(log[i])
     /\ \A i \in 1 .. n :
          (RetryableFailure(log[i]) /\ i < StopAfterAttempt) =>
            (i < n \/ call.pc = "backoff" \/ call.attempt = i + 1)
     /\ call.pc = "returned" =>
          /\ n >= 1
          /\ log[n].dispatched
          /\ log[n].cls = None
          /\ call.out = log[n].out
     /\ (call.pc = "raised" /\ call.exc.cls = "RetryError") <=>
          (n = StopAfterAttempt /\ RetryableFailure(log[n]))

\* Three retryable failures in a row: a 5xx, then twice more, and the call gave up
C12_Witness ==
  /\ call.pc = "raised"
  /\ call.exc.cls = "RetryError"
  /\ Len(call.log) = StopAfterAttempt
  /\ \A i \in 1 .. StopAfterAttempt : call.log[i].cls = "LLMServiceUnavailableError"

\* C13 as stated: when a dispatch ends in a fatal failure (authentication, quota,
\* rate limit, unsupported provider, generic), analyze_correlation has made
\* exactly one attempt and raises that typed error itself.
C13_FatalExactlyOnce ==
  \A i \in 1 .. Len(call.log) :
    FatalFailure(call.log[i]) =>
      /\ Len(call.log) = 1
      /\ call.pc = "raised"
      /\ call.exc = call.log[i].exc

\* C13 amended: a dispatch that ends in a fatal failure is never retried: it is
\* the last attempt of the call and its typed error itself (no RetryError) is
\* raised; it is the only attempt when the failure is the first dispatch's, and
\* it may be the second or third when retryable failures came before it.
C13_FatalNeverRetried ==
  \A i \in 1 .. Len(call.log) :
    FatalFailure(call.log[i]) =>
      /\ i = Len(call.log)
      /\ call.pc = "raised"
      /\ call.exc = call.log[i].exc
      /\ call.exc.cls # "RetryError"
      /\ \A k \in 1 .. i - 1 : RetryableFailure(call.log[k])

\* A 503 on the first attempt, a 401 on the second
C13_Witness ==
  /\ call.pc = "raised"
  /\ Len(call.log) = 2
  /\ call.log[1].cls = "LLMServiceUnavailableError"
  /\ call.log[2].dispatched
  /\ call.log[2].cls = "LLMAuthenticationError"
  /\ call.exc.cls = "LLMAuthenticationError"

----------------------------------------------------------------------------
(* Properties of the provider adapters *)

\* The response is a 200 with a message
Success(resp) == resp.kind = "http" /\ resp.status = 200

\* The class the error taxonomy gives a failed request: by the status, the
\* quota keywords of the body, and the transport failure
TaxonomyClass(resp) ==
  IF resp.kind \in {"timeout", "connect"} THEN "LLMServiceUnavailableError"
  ELSE IF resp.status = 401 THEN "LLMAuthenticationError"
  ELSE IF resp.status = 429
       THEN IF Mentions(resp.body, "quota") \/ Mentions(resp.body, "billing")
            THEN "LLMQuotaExceededError"
            ELSE "LLMRateLimitError"
  ELSE IF resp.status >= 500 THEN "LLMServiceUnavailableError"
  ELSE "RuntimeError"

\* C14 as stated: for both providers a failed request is classified by its
\* status and the quota keywords alone: 401 authentication, 429 with quota or
\* billing quota-exceeded, any other 429 rate-limited carrying the retry-after
\* header's value, 5xx, timeout and connection failure service-unavailable, any
\* other status a generic failure.
C14_ClassifiedByStatus ==
  (unit.pc = "done" /\ ~Success(unit.resp1) /\ ~Resends(unit.provider, unit.resp1)) =>
    /\ unit.got.raised
    /\ unit.got.exc.cls = TaxonomyClass(unit.resp1)
    /\ (unit.got.exc.cls = "LLMRateLimitError" /\ unit.resp1.headers.retry_after # Null) =>
         unit.got.exc.retry_after = ParseInt(unit.resp1.headers.retry_after[1])

\* C15 as stated: after a 400 that mentions response_format the adapter sends
\* the request once more, without the structured mode, and nothing after it; a
\* failure of that second request is classified by the error taxonomy.
C15_ResendOnceThenClassified ==
  (unit.pc = "done" /\ Resends(unit.provider, unit.resp1)) =>
    /\ unit.got.posts = << "json_object", "plain" >>
    /\ IF Success(unit.resp2)
       THEN ~unit.got.raised
       ELSE /\ unit.got.raised
            /\ unit.got.exc.cls = TaxonomyClass(unit.resp2)

\* The response whose message the adapter parses
Answer == IF Resends(unit.provider, unit.resp1) THEN unit.resp2 ELSE unit.resp1

\* The adapter's parsing of the message fails: json.loads rejects the content
\* (provider A) or the text taken from it (provider B)
ParseFails(provider, content) ==
  IF provider = "anthropic" THEN ~IsJsonObject(JsonText(content))
  ELSE ~IsJsonObject(content)

\* C16: for both providers a 200 response whose content cannot be parsed never
\* raises: the adapter returns verdict inconclusive, confidence 0.0 and the raw
\* text set to the whole unparsed content; the raw text is present only when
\* parsing failed.
C16_ParseFailureFallback ==
  (unit.pc = "done" /\ Success(Answer)) =>
    /\ ~unit.got.raised
    /\ ParseFails(unit.provider, Answer.content) =>
         /\ unit.got.out.verdict = Some("inconclusive")
         /\ unit.got.out.confidence = Some(0)
         /\ unit.got.out.raw = Some(Answer.content)
    /\ unit.got.out.raw # Null => ParseFails(unit.provider, Answer.content)

\* Provider B answered prose around braces that hold no JSON: the fallback is
\* returned with the whole content, not the matched part, as raw text
C16_Witness ==
  /\ unit.pc = "done"
  /\ unit.provider = "anthropic"
  /\ Success(unit.resp1)
  /\ GreedyMatch(unit.resp1.content) \notin {<< >>, unit.resp1.content}
  /\ unit.got.out = Output(Some("inconclusive"), Some(0), Some(unit.resp1.content))

\* The first balanced {...} block of a text: from the first "{" to the "}"
\* that closes it; empty when there is none
FirstBalanced(content) ==
  LET opens == {i \in DOMAIN content : content[i] = "{"}
  IN IF opens = {} THEN << >>
     ELSE LET first == CHOOSE i \in opens : \A k \in opens : i <= k
              ends == {k \in first .. Len(content) :
                         Depth(content, k) = Depth(content, first - 1)}
          IN IF ends = {} THEN << >>
             ELSE SubSeq(content, first, CHOOSE k \in ends : \A n \in ends : k <= n)

\* C17 as stated: provider B's adapter parses the first balanced {...} block:
\* when the text holds a valid JSON object, whatever prose follows it (braces
\* included), the verdict returned is that object's verdict.
C17_FirstBalancedBlock ==
  (/\ unit.pc = "done"
   /\ unit.provider = "anthropic"
   /\ Success(unit.resp1)
   /\ IsJsonObject(FirstBalanced(unit.resp1.content))) =>
    /\ ~unit.got.raised
    /\ unit.got.out.verdict = LoadObject(FirstBalanced(unit.resp1.content)).verdict

----------------------------------------------------------------------------
(* Properties of the evidence aggregator *)

\* The field of the bundle that holds a collector's fragment
Field(b, c) ==
  IF c = "opentargets" THEN b.opentargets
  ELSE IF c = "literature" THEN b.literature
  ELSE b.gwas_catalog

\* Empty: None for the association score, [] for the two lists
EmptyFragment(c) == IF c = "opentargets" THEN Null ELSE << >>

\* The fragment a collector's outcome stands for
Expected(c) ==
  IF agg.outcome[c].raised THEN EmptyFragment(c) ELSE agg.outcome[c].value

\* C18: whichever collectors raise, _fetch_evidence returns a bundle (it
\* raises only when a resolver did); the fragment of each collector that
\* raised is Empty and the fragment of each other collector is what it returned.
C18_FailedFragmentsEmpty ==
  /\ agg.pc = "raised" => agg.resolve # "ok"
  /\ agg.pc = "done" =>
       \A c \in Started(agg.include_gwas) :
         /\ agg.outcome[c].raised => Field(agg.bundle, c) = EmptyFragment(c)
         /\ ~agg.outcome[c].raised => Field(agg.bundle, c) = agg.outcome[c].value

\* The literature collector raised, the two others returned their fragments
C18_Witness ==
  /\ agg.pc = "done"
  /\ agg.include_gwas
  /\ agg.outcome["literature"].raised
  /\ agg.bundle.literature = << >>
  /\ agg.bundle.opentargets = Some("score")
  /\ agg.bundle.gwas_catalog = << "assoc" >>

\* C19: join-all: no bundle exists before every started collector task has
\* finished; when the bundle is built each started task, whether or not a
\* sibling raised, has run to its own result, and none was cancelled or skipped.
C19_JoinAll ==
  /\ agg.pc \in {"resolve", "gather", "raised"} => agg.bundle = NoBundle
  /\ agg.pc \in {"gather", "done"} =>
       \A c \in Started(agg.include_gwas) : agg.status[c] \in {"running", "finished"}
  /\ agg.pc = "done" =>
       /\ Len(agg.order) = Len(Tasks(agg.include_gwas))
       /\ \A c \in Started(agg.include_gwas) :
            /\ agg.status[c] = "finished"
            /\ \E i \in DOMAIN agg.order : agg.order[i] = c
            /\ \E i \in DOMAIN agg.results :
                 Tasks(agg.include_gwas)[i] = c /\ agg.results[i] = agg.outcome[c]

\* The task that finished first raised; its two siblings finished after it
\* with their fragments, and then the bundle was built
C19_Witness ==
  /\ agg.pc = "done"
  /\ Len(agg.order) = 3
  /\ agg.outcome[agg.order[1]].raised
  /\ ~agg.outcome[agg.order[2]].raised
  /\ ~agg.outcome[agg.order[3]].raised
  /\ Field(agg.bundle, agg.order[2]) = agg.outcome[agg.order[2]].value
  /\ Field(agg.bundle, agg.order[3]) = agg.outcome[agg.order[3]].value

\* C20: the bundle depends on the collectors' outcomes and on include_gwas
\* only, not on the order in which the tasks finished: each field holds the
\* fragment of its own collector, never a value of another collector, and the
\* genetic-association field is [] when that collector was not started.
C20_OrderIndependent ==
  agg.pc = "done" =>
    /\ agg.bundle =
         Bundle(Some("ENSG1"), Some("EFO_1"), Expected("opentargets"),
                Expected("literature"),
                IF agg.include_gwas THEN Expected("gwas") ELSE << >>)
    /\ \A c \in Collectors : Field(agg.bundle, c) \in Returns(c) \cup {EmptyFragment(c)}

\* The tasks finished in the reverse of their argument order, each with a
\* fragment of its own
C20_Witness ==
  /\ agg.pc = "done"
  /\ agg.order = << "gwas", "literature", "opentargets" >>
  /\ agg.bundle.opentargets = Some("score")
  /\ agg.bundle.literature = << "hit" >>
  /\ agg.bundle.gwas_catalog = << "assoc" >>

\* C21: the genetic-association collector is called if and only if the request
\* has include_gwas: once the collectors are started it is among them exactly
\* when the caller opted in, and without the opt-in it never runs and the
\* bundle's gwas_catalog is the empty list.
C21_GwasOnlyOnOptIn ==
  /\ agg.pc \in {"resolve", "raised"} => agg.status["gwas"] = "unstarted"
  /\ agg.pc \in {"gather", "done"} =>
       (agg.status["gwas"] # "unstarted" <=> agg.include_gwas)
  /\ ~agg.include_gwas =>
       /\ \A i \in DOMAIN agg.order : agg.order[i] # "gwas"
       /\ Len(agg.results) <= 2
       /\ agg.pc = "done" => agg.bundle.gwas_catalog = << >>

\* No opt-in: the two other collectors returned their fragments, the
\* genetic-association collector was never started
C21_Witness ==
  /\ agg.pc = "done"
  /\ ~agg.include_gwas
  /\ agg.status["gwas"] = "unstarted"
  /\ agg.bundle.opentargets = Some("score")
  /\ agg.bundle.literature = << "hit" >>
  /\ agg.bundle.gwas_catalog = << >>

----------------------------------------------------------------------------
(* Properties of the resolvers and the collectors *)

CollectorFunctions ==
  {"get_opentargets_association", "get_literature_evidence", "get_gwas_associations"}

\* The answer to the request the function made last
LastAnswer ==
  IF fetcher.fn = "get_opentargets_association"
  THEN fetcher.service[fetcher.requested[Len(fetcher.requested)] + 1]
  ELSE fetcher.service

\* Empty, by collector: None for the association score, [] for the lists
EmptyOf(fn) == IF fn = "get_opentargets_association" THEN Null ELSE << >>

\* C22 as stated: no collector lets an exception out when its remote call
\* fails: each returns Empty instead.
C22_CollectorsNeverRaise ==
  (fetcher.pc = "done" /\ fetcher.fn \in CollectorFunctions) =>
    /\ ~fetcher.got.raised
    /\ LastAnswer.error => fetcher.got.value = EmptyOf(fetcher.fn)

\* C23 as stated: resolve_gene_symbol raises its resolution error whenever the
\* lookup fails or the body carries no identifier, and never returns a null or
\* empty id.
C23_GeneWithoutIdFails ==
  (fetcher.pc = "done" /\ fetcher.fn = "resolve_gene_symbol") =>
    /\ (fetcher.service.error \/ fetcher.service.data.id \in {Null, Some("")}) =>
         (fetcher.got.raised /\ fetcher.got.cls = "RuntimeError")
    /\ ~fetcher.got.raised => fetcher.got.value.ensg \notin {Null, Some("")}

\* C24: for the documents the service returned, resolve_disease_label raises
\* its resolution error exactly when none is of ontology efo or mondo; when it
\* succeeds the two ids are not both absent, and the id of each ontology is
\* made from the first document of that ontology in the list's order.
C24_DiseaseResolution ==
  (fetcher.pc = "done" /\ fetcher.fn = "resolve_disease_label" /\ ~fetcher.service.error) =>
    LET docs == fetcher.service.data
        First(onto, i) ==
          /\ docs[i].onto = onto
          /\ \A k \in 1 .. i - 1 : docs[k].onto # onto
        Has(onto) == \E i \in DOMAIN docs : docs[i].onto = onto
        got == fetcher.got
    IN /\ got.raised <=> (~Has("efo") /\ ~Has("mondo"))
       /\ got.raised => got.cls = "RuntimeError"
       /\ ~got.raised =>
            /\ ~(got.value.efo_id = "" /\ got.value.mondo_id = Null)
            /\ IF Has("efo")
               THEN \E i \in DOMAIN docs :
                      First("efo", i) /\ got.value.efo_id = EfoId(docs[i].short)
               ELSE got.value.efo_id = ""
            /\ IF Has("mondo")
               THEN \E i \in DOMAIN docs :
                      First("mondo", i) /\ got.value.mondo_id = Some(MondoId(docs[i].short))
               ELSE got.value.mondo_id = Null

\* Two documents of ontology efo: the id is made from the first
C24_Witness ==
  /\ fetcher.pc = "done"
  /\ fetcher.fn = "resolve_disease_label"
  /\ ~fetcher.service.error
  /\ fetcher.service.data = << [onto |-> "efo", short |-> "2"],
                               [onto |-> "efo", short |-> "EFO_1"] >>
  /\ fetcher.got = Gave([efo_id |-> "EFO_2", mondo_id |-> Null])

\* C30 as stated: the association-score collector requests no page after a
\* page that is empty or holds the target; it returns the row's scores when a
\* requested page held the target and Empty otherwise.
C30_StopsOnEmptyOrFound ==
  fetcher.fn = "get_opentargets_association" =>
    LET asked == fetcher.requested
        page(k) == fetcher.service[asked[k] + 1]
    IN /\ \A k \in 1 .. Len(asked) - 1 :
            /\ ~page(k).error
            /\ page(k).data.rows \notin {"empty", "target"}
       /\ fetcher.pc = "done" =>
            IF \E k \in DOMAIN asked : ~page(k).error /\ page(k).data.rows = "target"
            THEN fetcher.got = Gave(Some("score"))
            ELSE fetcher.got = Gave(Null)

(* Properties of the persisted result and of the run record *)

\* C27 as stated: whenever the analyzer was invoked for a run, the verdict
\* persisted on the result is one of the eight verdicts of the schema and the
\* persisted confidence lies in [0, 1] (0 .. 10 tenths), whatever content the
\* provider returned.
C27_VerdictInSchema ==
  \A r \in Runs :
    (hist[r].analyzer # "none" /\ Len(store[r].results) >= 1) =>
      /\ Persisted(r).verdict \in
           { Some(v) : v \in {"strong", "moderate", "weak", "no_evidence", "inconclusive",
                              "error", "retry_later", "service_unavailable"} }
      /\ Persisted(r).confidence \in { Some(c) : c \in 0 .. 10 }

\* The positions of a run inside analyze_correlation
AnalyzerPositions == {"rate_check", "reject_sleep", "dispatch", "backoff"}

\* C28: once the evidence is gathered the analyzer is invoked exactly when the
\* request names a model. A run without a model never enters the analyzer, its
\* steps leave the rate-limit window as it was, its result carries the
\* evidence with verdict, confidence and llm_output_json null, and it ends
\* completed (when the store accepts its commits).
C28_AnalyzerIffModel ==
  /\ [](\A r \in Runs :
         /\ request[r].model = Null =>
              /\ pc[r] \notin AnalyzerPositions
              /\ llm[r].attempt = 0
              /\ hist[r].analyzer = "none"
              /\ (hist[r].fetch = "ok" /\ ~hist[r].commitFailed /\ pc[r] = "done") =>
                   /\ store[r].analysis.status = "completed"
                   /\ Len(store[r].results) = 1
                   /\ Persisted(r).evidence_json # Null
                   /\ Persisted(r).verdict = Null
                   /\ Persisted(r).confidence = Null
                   /\ Persisted(r).llm_output_json = Null
         /\ (request[r].model # Null /\ hist[r].fetch = "ok") =>
              \/ pc[r] \in AnalyzerPositions /\ llm[r].attempt >= 1
              \/ hist[r].analyzer # "none")
  /\ [][\A r \in Runs :
          (request[r].model = Null /\ pc'[r] # pc[r]) => UNCHANGED rateVars]_vars

\* C28 witness: a run without a model completed with its evidence and no
\* verdict, beside a run with a model whose analyzer returned after its call
\* was admitted to the window of its provider
C28_Witness ==
  /\ request[1].model = Null /\ pc[1] = "done"
  /\ store[1].analysis.status = "completed"
  /\ Persisted(1).evidence_json # Null /\ Persisted(1).verdict = Null
  /\ request[2].model # Null /\ pc[2] = "done"
  /\ hist[2].analyzer = "returned"
  /\ Len(Requests(admitted, request[2].provider)) > RequestsPerMinute - StopAfterAttempt

\* C29: on the record a run works on and on the stored row alike,
\* completed_at is set exactly when status is completed or failed: it is null
\* while the run is pending or processing and set on both terminal paths.
C29_CompletedAtIffTerminal ==
  \A r \in Runs :
    /\ analysis[r].completed_at # Null <=> analysis[r].status \in {"completed", "failed"}
    /\ store[r].analysis.completed_at # Null <=>
         store[r].analysis.status \in {"completed", "failed"}

\* C29 witness: one stored row completed and one failed, both with
\* completed_at set
C29_Witness ==
  /\ pc[1] = "done" /\ store[1].analysis.status = "completed"
  /\ store[1].analysis.completed_at # Null
  /\ pc[2] = "done" /\ store[2].analysis.status = "failed"
  /\ store[2].analysis.completed_at # Null

----------------------------------------------------------------------------
(* Specification of the HTTP handlers, the background task and the WebSocket
   manager of main.py: sessions, rows of the record store, notifications *)

\* Logins and analyses taken
MaxLogins == 2
MaxAnalyses == 1

\* uuid.uuid4() of create_session: a fresh id at every login
SessionIds == << "s1", "s2", "s3", "s4" >>

\* The bodies of the login requests: provider and key
LoginRequests ==
  { [api_provider |-> "openai", api_key |-> "sk-1"],
    [api_provider |-> "anthropic", api_key |-> "sk-2"] }

ApiKeys == { q.api_key : q \in LoginRequests }

\* analysis_request.dict(): the members of AnalysisRequest, none of them a key
AnalysisRequests ==
  { [gene |-> "BRCA1", disease |-> "cancer", model |-> m] : m \in {Null, Some("gpt-4o-mini")} }

\* The WebSockets that may subscribe to an analysis
Sockets == {"A", "B"}

\* What run_analysis leaves in the store: the status of the analysis and the
\* result row, or an exception of the handler's own commit (no result row).
\* error_message carries the text the provider or the resolver answered with.
RunOutcomes ==
  { [raised |-> FALSE, status |-> "completed", verdict |-> Some("strong"), error_message |-> Null],
    [raised |-> FALSE, status |-> "completed", verdict |-> Null, error_message |-> Null],
    [raised |-> FALSE, status |-> "completed", verdict |-> Some("error"),
     error_message |-> Some("API Authentication Error: Invalid API key")],
    [raised |-> FALSE, status |-> "failed", verdict |-> Some("error"),
     error_message |-> Some("Gene symbol not found")],
    [raised |-> TRUE, status |-> "processing", verdict |-> Null, error_message |-> Null] }

\* No outcome yet
NoOutcome == [raised |-> FALSE, status |-> "pending", verdict |-> Null, error_message |-> Null]

\* SessionStore.create_session: the entry kept in memory, key included
StoreEntry(sid, q) == [id |-> sid, api_provider |-> q.api_provider, api_key |-> q.api_key]

SessionRowWithKey(sid, q) ==
  [id |-> sid, api_provider |-> q.api_provider, api_key_encrypted |-> Some(q.api_key)]

\* login: the Session row, api_key_encrypted = None
SessionRow(sid, q) ==
  [id |-> sid, api_provider |-> q.api_provider, api_key_encrypted |-> Null]

\* create_analysis: the Analysis row
AnalysisRow(sid, q) ==
  [session_id |-> sid, gene_symbol |-> q.gene, disease_label |-> q.disease,
   params_json |-> q, status |-> "pending"]

\* run_analysis_task: the UserSession built for the service, which holds the
\* key and is never added to a database session
TransientSession(sid, provider, key) ==
  [id |-> sid, api_provider |-> provider, api_key_encrypted |-> Some(key)]

\* The result row of an outcome
OutcomeRow(a, o) == [analysis_id |-> a, verdict |-> o.verdict, error_message |-> o.error_message]

\* One send_update call: the connection being sent to, its position in the
\* list, the connections tried, those registered during the whole call
NoSend == [index |-> 0, current |-> "", attempted |-> {}, failed |-> {}, stable |-> {}, detached |-> FALSE]

\* The background task of an analysis, as add_task received its arguments
NewTask(sid, q, entry) ==
  [pc |-> "update_start", session_id |-> sid, request |-> q,
   api_provider |-> entry.api_provider, api_key |-> entry.api_key,
   session |-> Null, llm_key |-> Null, outcome |-> NoOutcome,
   send |-> NoSend, skipped |-> << {}, {} >>, tried |-> << {}, {} >>,
   failures |-> << {}, {} >>]

InitApp ==
  /\ clock = 0
  /\ nticks = 0
  /\ ceiling = RequestsPerMinute
  /\ tracker = EmptyMap
  /\ admitted = EmptyMap
  /\ lastCheck = NoCheck
  /\ lastReject = EmptyMap
  /\ nchecks = 0
  /\ IdleRuns
  /\ call = NoAnalyzerCall
  /\ unit = NoUnit
  /\ agg = NoAgg
  /\ fetcher = NoFetcher
  /\ extractor = NoExtractor
  /\ auth = NoAuth
  /\ app = [pc |-> "serving", nlogins |-> 0, response |-> 0,
            sessions |-> {}, session_rows |-> {},
            analyses |-> << >>, results |-> << >>, tasks |-> << >>,
            active_connections |-> EmptyMap]

NotApp == << clock, nticks, ceiling, rateVars, runVars, call, unit, agg, fetcher, extractor, auth >>

\* main.py lines 187-220: the key goes to the session store, the row is
\* written without it
Login ==
  /\ app.pc = "serving"
  /\ app.nlogins < MaxLogins
  /\ \E q \in LoginRequests :
       LET sid == SessionIds[app.nlogins + 1]
       IN app' = [app EXCEPT !.nlogins = @ + 1,
                             !.sessions = @ \cup {StoreEntry(sid, q)},
                             !.session_rows = @ \cup {SessionRow(sid, q)},
                             !.response = 200]
  /\ UNCHANGED NotApp

\* main.py lines 223-236: the entry and the row of the session are deleted
Logout ==
  /\ app.pc = "serving"
  /\ \E n \in 1 .. app.nlogins :
       LET sid == SessionIds[n]
       IN /\ \E s \in app.sessions \cup app.session_rows : s.id = sid
          /\ app' = [app EXCEPT !.sessions = { s \in @ : s.id # sid },
                                !.session_rows = { s \in @ : s.id # sid },
                                !.response = 200]
  /\ UNCHANGED NotApp

\* main.py lines 239-290: 401 without the row or without the entry (an entry
\* unused for the timeout is deleted by get_session); otherwise the Analysis
\* row is committed and the task is scheduled with the provider and the key
CreateAnalysis ==
  /\ app.pc = "serving"
  /\ app.nlogins >= 1
  /\ Len(app.analyses) < MaxAnalyses
  /\ \E n \in 1 .. app.nlogins, q \in AnalysisRequests, expired \in BOOLEAN :
       LET sid == SessionIds[n]
           rows == { s \in app.session_rows : s.id = sid }
           entries == { s \in app.sessions : s.id = sid }
       IN IF rows = {}
          THEN app' = [app EXCEPT !.response = 401]
          ELSE IF entries = {} \/ expired
          THEN app' = [app EXCEPT !.response = 401,
                                  !.sessions = { s \in @ : s.id # sid }]
          ELSE \E entry \in entries :
                 app' = [app EXCEPT !.response = 200,
                                    !.analyses = Append(@, AnalysisRow(sid, q)),
                                    !.results = Append(@, << >>),
                                    !.tasks = Append(@, NewTask(sid, q, entry))]
  /\ UNCHANGED NotApp

\* ConnectionManager.connect, lines 127-131
Connect ==
  /\ app.pc = "serving"
  /\ \E a \in 1 .. MaxAnalyses, ws \in Sockets :
       LET conns == app.active_connections
           open == IF a \in DOMAIN conns THEN conns[a] ELSE << >>
       IN /\ \A i \in DOMAIN open : open[i] # ws
          /\ app' = [app EXCEPT
               !.active_connections =
                  [k \in DOMAIN conns \cup {a} |-> IF k = a THEN Append(open, ws) ELSE conns[k]]]
  /\ UNCHANGED NotApp

\* list.remove: the list without its element at position i
RemoveAt(list, i) == [k \in 1 .. Len(list) - 1 |-> IF k < i THEN list[k] ELSE list[k + 1]]

\* The task of analysis a is inside the loop of send_update
Sending(a) == a \in DOMAIN app.tasks /\ app.tasks[a].pc \in {"update_send", "final_send"}

\* websocket_endpoint lines 438-439 and ConnectionManager.disconnect, lines
\* 133-137: the socket leaves the list, an empty list leaves the dict. A
\* send_update suspended in its loop keeps iterating the same list object.
Disconnect ==
  /\ app.pc = "serving"
  /\ \E a \in DOMAIN app.active_connections :
       \E i \in DOMAIN app.active_connections[a] :
         LET conns == app.active_connections
             ws == conns[a][i]
             rest == RemoveAt(conns[a], i)
             tasks == [k \in DOMAIN app.tasks |->
                         IF k = a /\ Sending(a)
                         THEN [app.tasks[k] EXCEPT
                                 !.send.stable = @ \ {ws},
                                 !.send.detached = @ \/ rest = << >>]
                         ELSE app.tasks[k]]
         IN app' = [app EXCEPT
              !.tasks = tasks,
              !.active_connections =
                 IF rest = << >> THEN [k \in DOMAIN conns \ {a} |-> conns[k]]
                 ELSE [conns EXCEPT ![a] = rest]]
  /\ UNCHANGED NotApp

\* The list a suspended send_update iterates
Iterated(a) ==
  IF app.tasks[a].send.detached \/ a \notin DOMAIN app.active_connections THEN << >>
  ELSE app.active_connections[a]

\* The position of the task after a send_update call
AfterUpdate(p) == IF p \in {"update_start", "update_send"} THEN "run" ELSE "close"

\* The number of the send_update call, first or second
UpdateNo(p) == IF p \in {"update_start", "update_send"} THEN 1 ELSE 2

\* The loop of send_update is left: what the call tried and what it passed over
LeaveUpdate(t, send) ==
  [t EXCEPT !.pc = AfterUpdate(t.pc),
            !.send = NoSend,
            !.tried[UpdateNo(t.pc)] = send.attempted,
            !.failures[UpdateNo(t.pc)] = send.failed,
            !.skipped[UpdateNo(t.pc)] = send.stable \ send.attempted]

\* lines 139-142 of send_update, entered at lines 306-310 and 322-335: nothing
\* to do without an entry for the analysis, otherwise the first connection of
\* the list is sent to
SendUpdateStart ==
  /\ app.pc = "serving"
  /\ \E a \in DOMAIN app.tasks :
       LET t == app.tasks[a]
       IN /\ t.pc \in {"update_start", "final_start"}
          /\ IF a \notin DOMAIN app.active_connections
             THEN app' = [app EXCEPT !.tasks[a] = LeaveUpdate(t, NoSend)]
             ELSE LET list == app.active_connections[a]
                  IN app' = [app EXCEPT !.tasks[a] =
                       [t EXCEPT !.pc = IF t.pc = "update_start" THEN "update_send" ELSE "final_send",
                                 !.send = [index |-> 1, current |-> list[1],
                                           attempted |-> {list[1]}, failed |-> {},
                                           stable |-> { list[i] : i \in DOMAIN list },
                                           detached |-> FALSE]]]
  /\ UNCHANGED NotApp

\* lines 141-146: send_json returns or raises, `except: pass` goes on, and
\* the loop takes the element at the next position of the list, if any
SendUpdateNext ==
  /\ app.pc = "serving"
  /\ \E a \in DOMAIN app.tasks, ok \in BOOLEAN :
       LET t == app.tasks[a]
           list == Iterated(a)
           next == t.send.index + 1
           now == [t.send EXCEPT !.failed = IF ok THEN @ ELSE @ \cup {t.send.current}]
       IN /\ t.pc \in {"update_send", "final_send"}
          /\ IF next <= Len(list)
             THEN app' = [app EXCEPT !.tasks[a].send =
                       [now EXCEPT !.index = next,
                                   !.current = list[next],
                                   !.attempted = @ \cup {list[next]}]]
             ELSE app' = [app EXCEPT !.tasks[a] = LeaveUpdate(t, now)]
  /\ UNCHANGED NotApp

\* lines 312-320 and analysis_service.py lines 41-48: the transient session
\* with the key is built for the service; status = "processing" is committed
RunBegin ==
  /\ app.pc = "serving"
  /\ \E a \in DOMAIN app.tasks :
       LET t == app.tasks[a]
       IN /\ t.pc = "run"
          /\ app' = [app EXCEPT
               !.tasks[a] = [t EXCEPT
                  !.pc = "running",
                  !.session = Some(TransientSession(t.session_id, t.api_provider, t.api_key))],
               !.analyses[a].status = "processing"]
  /\ UNCHANGED NotApp

\* The outcomes run_analysis can have for a request: a completed run has a
\* verdict exactly when a model was requested
OutcomesOf(q) ==
  { o \in RunOutcomes : o.status = "completed" => (o.verdict = Null <=> q.model = Null) }

\* analysis_service.py lines 50-125: with a model and the evidence gathered the
\* key of the transient session goes to LLMService; the status and the result
\* row are committed, or the handler's commit raises out of run_analysis
RunEnd ==
  /\ app.pc = "serving"
  /\ \E a \in DOMAIN app.tasks :
       LET t == app.tasks[a]
       IN /\ t.pc = "running"
          /\ \E o \in OutcomesOf(t.request) :
               app' = [app EXCEPT
                 !.tasks[a] = [t EXCEPT
                    !.pc = IF o.raised THEN "raised" ELSE "final_start",
                    !.outcome = o,
                    !.llm_key = IF o.status = "completed" /\ t.request.model # Null
                                THEN t.session[1].api_key_encrypted ELSE Null],
                 !.analyses[a].status = o.status,
                 !.results[a] = IF o.raised THEN << >> ELSE << OutcomeRow(a, o) >>]
  /\ UNCHANGED NotApp

\* lines 337-338: db.close() ends the task
TaskClose ==
  /\ app.pc = "serving"
  /\ \E a \in DOMAIN app.tasks :
       /\ app.tasks[a].pc = "close"
       /\ app' = [app EXCEPT !.tasks[a].pc = "done"]
  /\ UNCHANGED NotApp

NextApp ==
  \/ Login
  \/ Logout
  \/ CreateAnalysis
  \/ Connect
  \/ Disconnect
  \/ SendUpdateStart
  \/ SendUpdateNext
  \/ RunBegin
  \/ RunEnd
  \/ TaskClose

SpecApp == InitApp /\ [][NextApp]_vars

(* Properties of the sessions, the stored rows and the notifications *)

\* The text of an optional column
OptText(o) == IF o = Null THEN {} ELSE {o[1]}

\* The texts in the columns of the sessions, analyses and results tables
PersistedTexts ==
  UNION ( { {s.id, s.api_provider} \cup OptText(s.api_key_encrypted) : s \in app.session_rows }
          \cup { LET r == app.analyses[a]
                 IN {r.session_id, r.gene_symbol, r.disease_label, r.status,
                     r.params_json.gene, r.params_json.disease}
                    \cup OptText(r.params_json.model) : a \in DOMAIN app.analyses }
          \cup { UNION { OptText(app.results[a][i].verdict)
                         \cup OptText(app.results[a][i].error_message) :
                         i \in DOMAIN app.results[a] } : a \in DOMAIN app.results } )

C26_BestEffortDelivery ==
  app.pc = "serving" =>
    \A a \in DOMAIN app.tasks :
      LET t == app.tasks[a]
      IN /\ t.pc = "raised" => t.outcome.raised
         /\ \A n \in 1 .. 2 : t.failures[n] # {} => t.skipped[n] = {}
         /\ t.pc \in {"final_start", "final_send", "close", "done"} =>
              /\ app.analyses[a].status = t.outcome.status
              /\ app.results[a] = << OutcomeRow(a, t.outcome) >>

(* Properties of the stages of a call and of a run *)

\* C33 as stated: within one analyze_correlation call the rate check is made
\* once, before the first dispatch: a retry attempt goes straight to the
\* dispatch, so it is never at the rate check and never ends in a rate-limit
\* rejection.
C33_RateCheckOnce ==
  call.pc # "idle" =>
    /\ call.pc \in {"rate_check", "reject_sleep"} => call.attempt = 1
    /\ \A i \in DOMAIN call.log : call.log[i].attempt > 1 => call.log[i].dispatched

CollectorCalls(calls) ==
  { i \in DOMAIN calls :
      calls[i] \notin {"resolve_gene_symbol", "resolve_disease_label", "analyze_correlation"} }

\* C35: the stages run in the order gene resolution, disease resolution,
\* collectors, analyzer. A collector is called only after both resolutions
\* returned, the analyzer only after the fan-in produced the bundle, and a
\* run whose resolution failed has called no collector and no analyzer.
C35_StagesInOrder ==
  agg.pc # "idle" =>
    LET calls == agg.calls
        at(f) == { i \in DOMAIN calls : calls[i] = f }
    IN /\ \A i \in at("resolve_disease_label") : \E j \in at("resolve_gene_symbol") : j < i
       /\ \A i \in CollectorCalls(calls) :
            /\ agg.resolve = "ok"
            /\ \E j \in at("resolve_gene_symbol") : j < i
            /\ \E j \in at("resolve_disease_label") : j < i
       /\ \A i \in at("analyze_correlation") :
            /\ agg.bundle = BuildBundle(agg)
            /\ Joined(agg)
            /\ \A j \in DOMAIN calls : j # i => j < i
       /\ agg.pc = "raised" =>
            /\ agg.resolve # "ok"
            /\ CollectorCalls(calls) = {}
            /\ at("analyze_correlation") = {}
            /\ \A c \in Collectors : agg.status[c] = "unstarted"
       /\ agg.resolve = "gene" => at("resolve_disease_label") = {}

\* C35 witness: both resolutions, the three collectors and then the analyzer
C35_Witness ==
  /\ agg.pc = "analyzed"
  /\ agg.calls = << "resolve_gene_symbol", "resolve_disease_label",
                    "opentargets", "literature", "gwas", "analyze_correlation" >>

\* ceil(c / s) for a count c and a page size s
CeilDiv(c, s) == (c + s - 1) \div s

\* C36: the pagination of the association-score collector ends. The pages are
\* requested in order from 0; a further page is requested only while
\* pages_fetched * page_size is below the count the last page reported; for a
\* service that reports the count c on every page at most max(1, ceil(c / s))
\* pages are fetched; a fetch failure on any page ends the loop and the
\* collector returns Empty, never an exception.
C36_PaginationEnds ==
  fetcher.fn = "get_opentargets_association" =>
    LET asked == fetcher.requested
        page(k) == fetcher.service[asked[k] + 1]
        size == DEFAULT_OPENTARGETS_SIZE
    IN /\ ~fetcher.got.raised
       /\ \A k \in DOMAIN asked : asked[k] = k - 1
       /\ \A k \in 1 .. Len(asked) - 1 :
            /\ ~page(k).error
            /\ k * size < page(k).data.count
       /\ \A c \in PageCounts :
            (\A k \in DOMAIN asked : ~page(k).error => page(k).data.count = c) =>
              Len(asked) <= Max(1, CeilDiv(c, size))
       /\ fetcher.pc = "paging" => fetcher.index = Len(asked)
       /\ (fetcher.pc = "done" /\ page(Len(asked)).error) => fetcher.got = Gave(Null)
       /\ (fetcher.pc = "done" /\ ~page(Len(asked)).error
              /\ page(Len(asked)).data.rows # "target") =>
            /\ Len(asked) * size >= page(Len(asked)).data.count
            /\ fetcher.got = Gave(Null)

\* C36 witness: a service reporting 150 associations in pages of 50 is asked
\* for three pages and no more; another run of pages ends at a failed fetch
C36_Witness ==
  /\ fetcher.fn = "get_opentargets_association"
  /\ fetcher.pc = "done"
  /\ fetcher.requested = << 0, 1, 2 >>
  /\ \A k \in 1 .. 2 : fetcher.service[k] = ServiceData([rows |-> "others", count |-> 150])
  /\ \/ fetcher.service[3] = ServiceData([rows |-> "others", count |-> 150])
     \/ fetcher.service[3] = ServiceError
  /\ fetcher.got = Gave(Null)

\* C37: the windows are independent per provider. A rate check for one
\* provider, admitted or rejected, leaves the timestamps recorded for every
\* other provider unchanged, and a check is rejected only when the window of
\* its own provider holds the ceiling, however full another window is.
C37_WindowsIndependent ==
  /\ [](lastCheck # NoCheck =>
          /\ lastCheck.tkey = ProviderKey(lastCheck.key)
          /\ lastCheck.raised <=>
               AtLimit(Len(InWindow(lastCheck.before, lastCheck.now)), lastCheck.rpm))
  /\ [][nchecks' # nchecks =>
          \A q \in Providers \ {lastCheck'.key} :
            Requests(tracker', ProviderKey(q)) = Requests(tracker, ProviderKey(q))]_vars

\* C37 witness: the window of openai is full and its check was rejected; the
\* check of anthropic made after it, at the same time, is admitted
C37_Witness ==
  /\ lastCheck # NoCheck
  /\ lastCheck.key = "anthropic" /\ ~lastCheck.raised
  /\ "openai" \in DOMAIN lastReject
  /\ \E j \in lastReject["openai"] : j.at = clock
  /\ Len(InWindow(Requests(tracker, ProviderKey("openai")), clock)) = ceiling

----------------------------------------------------------------------------
(* Specification of the literature extractor taken alone: split_sentences on
   a text, and the hit loop of get_literature_evidence on the hits of the
   service. A text is the sequence of its characters. *)

\* Pieces a text is made of, hits in an answer, sentences in an abstract
MaxChunks == 4
MaxHits == 2
MaxSents == 4

\* line 227: evidence_sents[:3]
SentenceCap == 3

\* lines 170-176: the protected abbreviations and their placeholders, in the
\* order of the dict
Protected ==
  << [k |-> << "e", ".", "g", "." >>, v |-> << "e", "g" >>],
     [k |-> << "i", ".", "e", "." >>, v |-> << "i", "e" >>],
     [k |-> << "e", "t", " ", "a", "l", "." >>, v |-> << "e", "t", "a", "l" >>],
     [k |-> << "F", "i", "g", "." >>, v |-> << "F", "i", "g" >>],
     [k |-> << "D", "r", "." >>, v |-> << "D", "r" >>] >>

Abbreviations == { Protected[i].k : i \in DOMAIN Protected }

\* The pieces of the texts: the abbreviations, a capitalised word and a lower
\* case word after a space, the end of a sentence before a capitalised word,
\* the letters of a placeholder inside a word, two spaces
Chunks ==
  Abbreviations \cup
  { << " ", "A" >>, << " ", "x" >>, << ".", " ", "A" >>, << "e", "g" >>, << " ", " " >> }

RECURSIVE Flatten(_)
Flatten(cs) == IF cs = << >> THEN << >> ELSE Head(cs) \o Flatten(Tail(cs))

\* The texts given to split_sentences; the empty text stands for "" and None
Texts == UNION { { Flatten(cs) : cs \in [1 .. n -> Chunks] } : n \in 0 .. MaxChunks }

\* line 169: re.sub(r"\s+", " ", text)
RECURSIVE Collapse(_)
Collapse(t) ==
  IF t = << >> THEN << >>
  ELSE IF t[1] = " " /\ Len(t) > 1 /\ t[2] = " " THEN Collapse(Tail(t))
  ELSE << t[1] >> \o Collapse(Tail(t))

\* str.strip()
RECURSIVE Strip(_)
Strip(t) ==
  IF t = << >> THEN << >>
  ELSE IF t[1] = " " THEN Strip(Tail(t))
  ELSE IF t[Len(t)] = " " THEN Strip(SubSeq(t, 1, Len(t) - 1))
  ELSE t

\* str.replace(pat, rep): the occurrences from the left, not overlapping
RECURSIVE Replace(_, _, _)
Replace(t, pat, rep) ==
  IF t = << >> THEN << >>
  ELSE IF Len(t) >= Len(pat) /\ SubSeq(t, 1, Len(pat)) = pat
       THEN rep \o Replace(SubSeq(t, Len(pat) + 1, Len(t)), pat, rep)
  ELSE << t[1] >> \o Replace(Tail(t), pat, rep)

ProtectNothing(t, i) == t

\* lines 177-178: every abbreviation becomes its placeholder, from entry i on
RECURSIVE Protect(_, _)
Protect(t, i) ==
  IF i > Len(Protected) THEN t
  ELSE Protect(Replace(t, Protected[i].k, Protected[i].v), i + 1)

\* lines 180-182: every placeholder becomes its abbreviation, from entry i on
RECURSIVE Restore(_, _)
Restore(t, i) ==
  IF i > Len(Protected) THEN t
  ELSE Restore(Replace(t, Protected[i].v, Protected[i].k), i + 1)

\* [\.\?\!] and [A-Z0-9] of the pattern of line 179, on the characters in use
SentenceEnders == {".", "?", "!"}
SentenceStarters == {"A", "D", "F"}

\* line 179: the text is cut at a space that follows an end mark and precedes
\* a capital or a digit
IsCut(t, i) ==
  /\ 1 < i /\ i < Len(t)
  /\ t[i] = " "
  /\ t[i - 1] \in SentenceEnders
  /\ t[i + 1] \in SentenceStarters

RECURSIVE SplitFrom(_, _, _)
SplitFrom(t, i, part) ==
  IF i > Len(t) THEN << part >>
  ELSE IF IsCut(t, i) THEN << part >> \o SplitFrom(t, i + 1, << >>)
  ELSE SplitFrom(t, i + 1, Append(part, t[i]))

\* split_sentences, lines 166-183
SplitSentences(text) ==
  IF text = << >> THEN << >>
  ELSE LET parts == SplitFrom(Protect(Strip(Collapse(text)), 1), 1, << >>)
           restored == [i \in DOMAIN parts |-> Strip(Restore(parts[i], 1))]
       IN SelectSeq(restored, LAMBDA p : p # << >>)

\* A title or a sentence of a hit, by what the patterns find in it: the gene
\* and the disease, the gene alone, neither; "" is no title
GenePattern(s) == s \in {"both", "gene"}
DiseasePattern(s) == s \in {"both"}

\* The abstracts of the hits, as the sentences split_sentences makes of them
RECURSIVE SeqsUpTo(_, _)
SeqsUpTo(S, n) ==
  IF n = 0 THEN { << >> }
  ELSE SeqsUpTo(S, n - 1) \cup { Append(q, x) : q \in SeqsUpTo(S, n - 1), x \in S }

\* The hits of the Europe PMC answer
Hits == [title : {"", "plain", "both"}, sents : SeqsUpTo({"both", "gene"}, MaxSents)]

CapNone(sents) == sents

\* line 227: evidence_sents[:3]
Cap(sents) == SubSeq(sents, 1, Min(SentenceCap, Len(sents)))

\* lines 215-219: the sentences naming gene and disease, else the title if it
\* names both, else nothing
EvidenceSents(h) ==
  LET found == SelectSeq(h.sents, LAMBDA s : GenePattern(s) /\ DiseasePattern(s))
  IN IF found # << >> THEN found
     ELSE IF h.title # "" /\ GenePattern(h.title) /\ DiseasePattern(h.title)
          THEN << h.title >>
     ELSE << >>

\* lines 204-230: the loop over hits[:max_records]
RECURSIVE HitLoop(_)
HitLoop(hits) ==
  IF hits = << >> THEN << >>
  ELSE IF EvidenceSents(Head(hits)) = << >> THEN HitLoop(Tail(hits))
  ELSE << [title |-> Head(hits).title, sentences |-> Cap(EvidenceSents(Head(hits)))] >>
       \o HitLoop(Tail(hits))

LiteratureHits(hits, max_records) ==
  HitLoop(SubSeq(hits, 1, Min(max_records, Len(hits))))

NewExtractor(fn, text, hits, max_records) ==
  [pc |-> "ready", fn |-> fn, text |-> text, hits |-> hits, max_records |-> max_records,
   out |-> << >>]

InitExtractor ==
  /\ clock = 0
  /\ nticks = 0
  /\ ceiling = RequestsPerMinute
  /\ tracker = EmptyMap
  /\ admitted = EmptyMap
  /\ lastCheck = NoCheck
  /\ lastReject = EmptyMap
  /\ nchecks = 0
  /\ IdleRuns
  /\ call = NoAnalyzerCall
  /\ unit = NoUnit
  /\ agg = NoAgg
  /\ fetcher = NoFetcher
  /\ app = NoApp
  /\ auth = NoAuth
  /\ \/ \E t \in Texts : extractor = NewExtractor("split_sentences", t, << >>, 0)
     \/ \E hs \in SeqsUpTo(Hits, MaxHits), m \in 0 .. MaxHits + 1 :
          extractor = NewExtractor("get_literature_evidence", << >>, hs, m)

NotExtractor ==
  << clock, nticks, ceiling, rateVars, runVars, call, unit, agg, fetcher, app, auth >>

SplitCall ==
  /\ extractor.pc = "ready"
  /\ extractor.fn = "split_sentences"
  /\ extractor' = [extractor EXCEPT !.pc = "done", !.out = SplitSentences(extractor.text)]
  /\ UNCHANGED NotExtractor

ExtractCall ==
  /\ extractor.pc = "ready"
  /\ extractor.fn = "get_literature_evidence"
  /\ extractor' = [extractor EXCEPT
                     !.pc = "done",
                     !.out = LiteratureHits(extractor.hits, extractor.max_records)]
  /\ UNCHANGED NotExtractor

NextExtractor == SplitCall \/ ExtractCall

SpecExtractor == InitExtractor /\ [][NextExtractor]_vars

(* Properties of the literature extractor *)

\* C31: every hit the literature collector returns carries between 1 and 3
\* evidence sentences, a hit without a qualifying sentence or title is
\* dropped, and no more hits are returned than the caller's max count.
C31_HitsCarryEvidence ==
  (extractor.pc = "done" /\ extractor.fn = "get_literature_evidence") =>
    LET out == extractor.out
        taken == SubSeq(extractor.hits, 1, Min(extractor.max_records, Len(extractor.hits)))
    IN /\ \A i \in DOMAIN out :
            /\ Len(out[i].sentences) \in 1 .. 3
            /\ \A j \in DOMAIN out[i].sentences :
                 GenePattern(out[i].sentences[j]) /\ DiseasePattern(out[i].sentences[j])
       /\ Len(out) <= extractor.max_records
       /\ Len(out) = Cardinality({ i \in DOMAIN taken :
                                     \/ \E j \in DOMAIN taken[i].sents : taken[i].sents[j] = "both"
                                     \/ taken[i].title = "both" })

\* C31 witness: of two hits one has four qualifying sentences and is returned
\* with three, the other qualifies by its title alone and is returned with it
C31_Witness ==
  /\ extractor.pc = "done"
  /\ extractor.fn = "get_literature_evidence"
  /\ extractor.hits = << [title |-> "plain", sents |-> << "both", "both", "both", "both" >>],
                         [title |-> "both", sents |-> << "gene" >>] >>
  /\ extractor.out = << [title |-> "plain", sentences |-> << "both", "both", "both" >>],
                        [title |-> "both", sentences |-> << "both" >>] >>

\* t ends with s
EndsWith(t, s) == Len(t) >= Len(s) /\ SubSeq(t, Len(t) - Len(s) + 1, Len(t)) = s

\* s occurs in t
Occurs(t, s) == \E i \in 1 .. Len(t) - Len(s) + 1 : SubSeq(t, i, i + Len(s) - 1) = s

\* C32: split_sentences does not split at a protected abbreviation: no
\* sentence but the last ends with one. A text of two sentences whose first
\* holds an abbreviation followed by a capitalised word yields exactly the two
\* sentences, the abbreviation intact in the first. An abbreviation of the
\* text is found in a sentence. The empty text yields the empty sequence.
C32_AbbreviationsProtected ==
  (extractor.pc = "done" /\ extractor.fn = "split_sentences") =>
    LET out == extractor.out
    IN /\ extractor.text = << >> => out = << >>
       /\ \A i \in 1 .. Len(out) - 1 : \A k \in Abbreviations : ~EndsWith(out[i], k)
       /\ \A k \in Abbreviations :
            Occurs(Strip(Collapse(extractor.text)), k) =>
              \E i \in DOMAIN out : Occurs(out[i], k)
       /\ \A k \in Abbreviations :
            /\ extractor.text = k \o << " ", "A" >> \o << ".", " ", "A" >> =>
                 out = << k \o << " ", "A", "." >>, << "A" >> >>
            /\ extractor.text = k \o << " ", "A" >> \o << " ", "x" >> \o << ".", " ", "A" >> =>
                 out = << k \o << " ", "A", " ", "x", "." >>, << "A" >> >>

\* C32 witness: "Dr. A x. A" gave "Dr. A x." and "A"
C32_Witness ==
  /\ extractor.pc = "done"
  /\ extractor.fn = "split_sentences"
  /\ extractor.text = << "D", "r", ".", " ", "A", " ", "x", ".", " ", "A" >>
  /\ extractor.out = << << "D", "r", ".", " ", "A", " ", "x", "." >>, << "A" >> >>

\* " ".join(parts)
RECURSIVE JoinSpaces(_)
JoinSpaces(parts) ==
  IF parts = << >> THEN << >>
  ELSE IF Len(parts) = 1 THEN parts[1]
  ELSE parts[1] \o << " " >> \o JoinSpaces(Tail(parts))

\* C40 as stated: split_sentences only segments: the sentences joined with
\* single spaces are the text with its whitespace collapsed and trimmed.
C40_OnlySegments ==
  (extractor.pc = "done" /\ extractor.fn = "split_sentences") =>
    JoinSpaces(extractor.out) = Strip(Collapse(extractor.text))

----------------------------------------------------------------------------
(* Specification of the session-authenticated endpoints of main.py taken
   alone: login, logout, create_analysis, get_analysis, get_history over the
   in-memory SessionStore and the rows of users, sessions and analyses. The
   session ids are the numbers of the logins, each uuid4 being new. The
   last_used column of a session row, written by create_analysis and read
   nowhere, is left out. *)

\* Logins, analyses created, advances of the clock
MaxSessions == 2
MaxCreated == 2
MaxElapses == 2

\* config.py
SESSION_TIMEOUT_MINUTES == 20
SECONDS_PER_MINUTE == 60
HTTP_STATUS_UNAUTHORIZED == 401
HTTP_STATUS_NOT_FOUND == 404

Usernames == {"alice", "bob"}

\* The session ids a client presents: the ids issued, and one never issued
PresentedIds == 1 .. MaxSessions + 1

\* The time.time() of two calls differ by half the timeout or a second more
HalfTimeout == (SESSION_TIMEOUT_MINUTES * SECONDS_PER_MINUTE) \div 2
ElapseSteps == {HalfTimeout, HalfTimeout + 1}

With(f, k, v) == [x \in DOMAIN f \cup {k} |-> IF x = k THEN v ELSE f[x]]
Without(f, k) == [x \in DOMAIN f \ {k} |-> f[x]]

\* lines 67 and 81: the test of inactivity
Inactive(last_used, now) == now - last_used > SESSION_TIMEOUT_MINUTES * SECONDS_PER_MINUTE

\* SessionStore.get_session, lines 56-70: the store after the call and the
\* session returned
GetSession(sessions, sid, now) ==
  IF sid \notin DOMAIN sessions THEN [sessions |-> sessions, session |-> Null]
  ELSE IF Inactive(sessions[sid].last_used, now)
       THEN [sessions |-> Without(sessions, sid), session |-> Null]
  ELSE [sessions |-> [sessions EXCEPT ![sid].last_used = now],
        session |-> Some([sessions[sid] EXCEPT !.last_used = now])]

\* The session the specification describes: issued, not logged out, and used
\* within the timeout
Live(a, sid) ==
  /\ sid \in DOMAIN a.issued
  /\ sid \notin a.gone
  /\ ~Inactive(a.used[sid], a.now)

\* The record of a request: what was asked, what the session was when it was
\* asked, what was answered
Answered(a, op, sid, aid, status, body) ==
  [op |-> op, sid |-> sid, aid |-> aid, status |-> status, body |-> body,
   live |-> Live(a, sid)]

NoAnswer ==
  [op |-> "none", sid |-> 0, aid |-> 0, status |-> 0, body |-> << >>, live |-> FALSE]

\* A use of a live session counts from now
Used(a, sid) == IF Live(a, sid) THEN [a.used EXCEPT ![sid] = a.now] ELSE a.used

InitAuth ==
  /\ clock = 0
  /\ nticks = 0
  /\ ceiling = RequestsPerMinute
  /\ tracker = EmptyMap
  /\ admitted = EmptyMap
  /\ lastCheck = NoCheck
  /\ lastReject = EmptyMap
  /\ nchecks = 0
  /\ IdleRuns
  /\ call = NoAnalyzerCall
  /\ unit = NoUnit
  /\ agg = NoAgg
  /\ fetcher = NoFetcher
  /\ app = NoApp
  /\ extractor = NoExtractor
  /\ auth = [pc |-> "serving", now |-> 0, nelapses |-> 0,
             users |-> << >>, sessions |-> << >>, rows |-> << >>, analyses |-> << >>,
             response |-> NoAnswer, issued |-> << >>, used |-> << >>, gone |-> {}]

NotAuth ==
  << clock, nticks, ceiling, rateVars, runVars, call, unit, agg, fetcher, app, extractor >>

\* time.time() and datetime.utcnow() move on between two requests
Elapse(d) ==
  /\ auth.pc = "serving"
  /\ auth.nelapses < MaxElapses
  /\ auth' = [auth EXCEPT !.now = @ + d, !.nelapses = @ + 1]
  /\ UNCHANGED NotAuth

\* login, lines 187-220
SessionLogin(username) ==
  /\ auth.pc = "serving"
  /\ Len(auth.issued) < MaxSessions
  /\ LET known == \E i \in DOMAIN auth.users : auth.users[i] = username
         users == IF known THEN auth.users ELSE Append(auth.users, username)
         user_id == CHOOSE i \in DOMAIN users : users[i] = username
         sid == Len(auth.issued) + 1
     IN auth' = [auth EXCEPT
                   !.users = users,
                   !.sessions = With(@, sid, [user_id |-> user_id, last_used |-> auth.now]),
                   !.rows = With(@, sid, [user_id |-> user_id]),
                   !.issued = Append(@, username),
                   !.used = Append(@, auth.now),
                   !.response = [NoAnswer EXCEPT !.op = "login", !.sid = sid,
                                                 !.status = 200]]
  /\ UNCHANGED NotAuth

\* logout, lines 223-236
SessionLogout(sid) ==
  /\ auth.pc = "serving"
  /\ auth' = [auth EXCEPT
                !.sessions = Without(@, sid),
                !.rows = Without(@, sid),
                !.gone = @ \cup ({sid} \cap DOMAIN auth.issued),
                !.response = Answered(auth, "logout", sid, 0, 200, << >>)]
  /\ UNCHANGED NotAuth

\* create_analysis, lines 239-290
SessionCreateAnalysis(sid) ==
  /\ auth.pc = "serving"
  /\ Len(auth.analyses) < MaxCreated
  /\ IF sid \notin DOMAIN auth.rows
     THEN auth' = [auth EXCEPT
                     !.response = Answered(auth, "create_analysis", sid, 0,
                                           HTTP_STATUS_UNAUTHORIZED, << >>),
                     !.used = Used(auth, sid)]
     ELSE LET got == GetSession(auth.sessions, sid, auth.now)
          IN IF got.session = Null
             THEN auth' = [auth EXCEPT
                             !.sessions = got.sessions,
                             !.response = Answered(auth, "create_analysis", sid, 0,
                                                   HTTP_STATUS_UNAUTHORIZED, << >>),
                             !.used = Used(auth, sid)]
             ELSE auth' = [auth EXCEPT
                             !.sessions = got.sessions,
                             !.analyses = Append(@, [user_id |-> auth.rows[sid].user_id,
                                                    session_id |-> sid]),
                             !.response = Answered(auth, "create_analysis", sid,
                                                   Len(auth.analyses) + 1, 200, << >>),
                             !.used = Used(auth, sid)]
  /\ UNCHANGED NotAuth

OwnedIgnoringUser(analyses, aid, user_id) == aid \in DOMAIN analyses

\* lines 354-357: the analysis of this id and of this user
Owned(analyses, aid, user_id) ==
  aid \in DOMAIN analyses /\ analyses[aid].user_id = user_id

\* get_analysis, lines 341-385
GetAnalysis(sid, aid) ==
  /\ auth.pc = "serving"
  /\ auth' = [auth EXCEPT
                !.response =
                  IF sid \notin DOMAIN auth.rows
                  THEN Answered(auth, "get_analysis", sid, aid, HTTP_STATUS_UNAUTHORIZED, << >>)
                  ELSE IF ~Owned(auth.analyses, aid, auth.rows[sid].user_id)
                       THEN Answered(auth, "get_analysis", sid, aid, HTTP_STATUS_NOT_FOUND, << >>)
                  ELSE Answered(auth, "get_analysis", sid, aid, 200, << aid >>),
                !.used = Used(auth, sid)]
  /\ UNCHANGED NotAuth

\* lines 404-406: the ids of the user's analyses, the newest first, limit of
\* them at most
RECURSIVE History(_, _, _, _)
History(analyses, user_id, i, limit) ==
  IF i = 0 \/ limit = 0 THEN << >>
  ELSE IF analyses[i].user_id = user_id
       THEN << i >> \o History(analyses, user_id, i - 1, limit - 1)
  ELSE History(analyses, user_id, i - 1, limit)

\* get_history, lines 388-426
GetHistory(sid, limit) ==
  /\ auth.pc = "serving"
  /\ LET got == GetSession(auth.sessions, sid, auth.now)
     IN auth' = [auth EXCEPT
                   !.sessions = got.sessions,
                   !.response =
                     IF got.session = Null
                     THEN Answered(auth, "get_history", sid, 0, HTTP_STATUS_UNAUTHORIZED, << >>)
                     ELSE Answered(auth, "get_history", sid, 0, 200,
                                   History(auth.analyses, got.session[1].user_id,
                                           Len(auth.analyses), limit)),
                   !.used = Used(auth, sid)]
  /\ UNCHANGED NotAuth

\* SessionStore.cleanup_expired_sessions, lines 76-85, run by the task of
\* lines 165-172
CleanupExpiredSessions ==
  /\ auth.pc = "serving"
  /\ \E sid \in DOMAIN auth.sessions : Inactive(auth.sessions[sid].last_used, auth.now)
  /\ auth' = [auth EXCEPT
                !.sessions = [sid \in { s \in DOMAIN @ : ~Inactive(@[s].last_used, auth.now) }
                                |-> @[sid]]]
  /\ UNCHANGED NotAuth

NextAuth ==
  \/ \E d \in ElapseSteps : Elapse(d)
  \/ \E u \in Usernames : SessionLogin(u)
  \/ \E sid \in PresentedIds : SessionLogout(sid)
  \/ \E sid \in PresentedIds : SessionCreateAnalysis(sid)
  \/ \E sid \in PresentedIds, aid \in 1 .. MaxCreated : GetAnalysis(sid, aid)
  \/ \E sid \in PresentedIds, limit \in 1 .. MaxCreated : GetHistory(sid, limit)
  \/ CleanupExpiredSessions

SpecAuth == InitAuth /\ [][NextAuth]_vars

(* Properties of the session-authenticated endpoints *)

\* The user who created analysis aid: the one whose login issued the session
\* it was created with
Creator(a, aid) == a.issued[a.analyses[aid].session_id]

\* C38: a session reads only the analyses of its own user: get_analysis
\* returns an analysis only when the user who created it is the user of the
\* presented session and answers not-found for the id of another user's
\* analysis, and get_history lists only analyses of the session's user.
C38_OwnAnalysesOnly ==
  LET r == auth.response
  IN /\ (r.op = "get_analysis" /\ r.status = 200) =>
          /\ r.sid \in DOMAIN auth.issued
          /\ r.body = << r.aid >>
          /\ Creator(auth, r.aid) = auth.issued[r.sid]
     /\ (r.op = "get_analysis" /\ r.sid \in DOMAIN auth.rows /\ r.aid \in DOMAIN auth.analyses
           /\ Creator(auth, r.aid) # auth.issued[r.sid]) =>
          r.status = HTTP_STATUS_NOT_FOUND
     /\ (r.op = "get_history" /\ r.status = 200) =>
          \A i \in DOMAIN r.body : Creator(auth, r.body[i]) = auth.issued[r.sid]

\* C38 witness: with analyses of two users stored, a session of one of them
\* asked for the other's analysis and was answered not-found
C38_Witness ==
  /\ Len(auth.analyses) = 2
  /\ Creator(auth, 1) # Creator(auth, 2)
  /\ auth.response.op = "get_analysis"
  /\ auth.response.sid \in DOMAIN auth.rows
  /\ auth.response.aid \in DOMAIN auth.analyses
  /\ Creator(auth, auth.response.aid) # auth.issued[auth.response.sid]
  /\ auth.response.status = HTTP_STATUS_NOT_FOUND

\* C39 as stated: a session-authenticated operation answers unauthorized
\* for a session that was logged out or not used for longer than the timeout,
\* and a session used within the timeout, counted from its most recent use,
\* is not answered unauthorized.
C39_ExpiredSessionRejected ==
  auth.response.op \in {"create_analysis", "get_analysis", "get_history"} =>
    (auth.response.status = HTTP_STATUS_UNAUTHORIZED <=> ~auth.response.live)

====
